---- MODULE Spec2Model ----
(***************************************************************************)
(* Model of the repository-consistency validator of the document review    *)
(* system: the rule-based diff comparator                                  *)
(* (GitHubReviewValidator._compare_content_with_diff_rules) and the        *)
(* orchestration of one validation run                                     *)
(* (GitHubReviewValidator.validate_github_requirements_detailed, its       *)
(* single-verdict sibling validate_github_requirements,                    *)
(* LimitsConsistencyReviewer.review and the collection of the task list    *)
(* into a name-keyed mapping by DocumentReviewSystem.run_reviews).         *)
(*                                                                         *)
(* A character is a one-character string, a line is a sequence of          *)
(* characters and a text is the non-empty sequence of lines that           *)
(* str.split('\n') yields for it ('\n'.join is its inverse).               *)
(***************************************************************************)
EXTENDS Integers, Sequences, FiniteSets, TLC

VARIABLES
    \* ---- _compare_content_with_diff_rules ----
    content1,        \* first argument, as its lines
    content2,        \* second argument, as its lines
    allowed_diffs,   \* third argument: list of rule strings
    cmp_pc,          \* "call" before the call, "returned" after it
    cmp_ok,          \* first component of the returned tuple
    cmp_msg,         \* second component: [kind, summary, detailed]
    violations,      \* the local list of disallowed diff lines
    \* ---- one validation run ----
    fn,              \* entry point of the run: "detailed", "simple", "limits"
    document,        \* the document argument: [url, body]
    pc,              \* position of the run in its entry point
    results,         \* validate_github_requirements_detailed: the task list
    response,        \* the ReviewResponse result of the other entry points
    temp_dir,        \* local temp_dir: "None" or "dir"
    dir_exists,      \* file system: does the directory temp_dir exist
    repo,            \* file system: content of the checkout, or NoRepo
    overall_md_path, \* local overall_md_path: "None", "unset" or "path"
    attempts,        \* _clone_repository: the git clone calls made, in order
    clone_success,   \* value returned by _clone_repository, "pending" before
    raised,          \* the exception an except clause of the run caught, or "none"
    ran,             \* names of the task checks evaluated so far, in order
    results_map,     \* run_reviews: the name-keyed results, empty before
    caught,          \* _clone_repository: what its except clauses caught, or "none"
    stale,           \* file system: the directory holds content older than the call
    exit_code,       \* main: the argument of sys.exit, NoExit before
    all_limits,      \* review: the limits extracted so far, by source
    reasoning,       \* review: the reasoning of the returned response
    removed,         \* get_or_clone_repository: it removed an existing directory
    \* ---- calls of the pure functions ----
    call_args,       \* the argument of the functions called, "none" when idle
    call_ret,        \* the values returned so far, by function
    \* ---- concurrent callers of get_or_clone_repository ----
    cache,           \* file system: the entries of cache_dir, by repository name
    callers,         \* per caller: its url argument, position and return value
    \* ---- run_reviews with its worker threads ----
    rr_args,         \* the arguments [resume_from, skip_github]
    rr_pc,           \* position of the calling thread in run_reviews
    start_index,     \* local start_index
    results_dict,    \* local results: name -> [result, reasoning]
    futures,         \* per submitted review: the state of its worker thread
    collected,       \* the futures whose result the calling thread has read
    output_lock,     \* the thread that holds self.output_lock, or NoThread
    detailed_output, \* self.detailed_output: who appended, and holding the lock or not
    github_runs      \* calls of validate_github_requirements_detailed made

cmpVars == <<content1, content2, allowed_diffs, cmp_pc, cmp_ok, cmp_msg, violations>>

runVars == <<fn, document, pc, results, response, temp_dir, dir_exists, repo,
             overall_md_path, attempts, clone_success, raised, ran, results_map,
             caught, stale, exit_code, all_limits, reasoning, removed>>

vars == <<content1, content2, allowed_diffs, cmp_pc, cmp_ok, cmp_msg, violations,
          fn, document, pc, results, response, temp_dir, dir_exists, repo,
          overall_md_path, attempts, clone_success, raised, ran, results_map,
          caught, stale, exit_code, all_limits, reasoning, removed,
          call_args, call_ret,
          cache, callers,
          rr_args, rr_pc, start_index, results_dict, futures, collected,
          output_lock, detailed_output, github_runs>>

callVars == <<call_args, call_ret>>

cacheVars == <<cache, callers>>

reviewVars == <<rr_args, rr_pc, start_index, results_dict, futures, collected,
                output_lock, detailed_output, github_runs>>

extVars == <<cacheVars, reviewVars>>

----------------------------------------------------------------------------
(* Bounds of the explored inputs *)

MaxLines == 2        \* lines per text, general line alphabet
MaxBlankLines == 5   \* lines per text, blank / content line alphabet
MaxRepeat == 6       \* lines per text, texts that repeat one line

----------------------------------------------------------------------------
(* Strings as character sequences *)

WhitespaceChars == {" ", "\t"}

EmptyLine == <<>>
NEWLINES == <<"n", "e", "w", "l", "i", "n", "e", "s">>
SPACES == <<"s", "p", "a", "c", "e", "s">>
DASHES == <<"-", "-", "-">>
COT == <<"*", "*", "[", "C", "O", "T", "]", "*", "*">>

\* str.rstrip(): drop the trailing whitespace characters
RECURSIVE RStrip(_)
RStrip(s) ==
    IF s = <<>> THEN s
    ELSE IF s[Len(s)] \in WhitespaceChars THEN RStrip(SubSeq(s, 1, Len(s) - 1))
    ELSE s

\* str.lstrip(): drop the leading whitespace characters
RECURSIVE LStrip(_)
LStrip(s) ==
    IF s = <<>> THEN s
    ELSE IF s[1] \in WhitespaceChars THEN LStrip(Tail(s))
    ELSE s

\* str.strip()
Strip(s) == LStrip(RStrip(s))

\* the Python test  sub in s
Contains(s, sub) ==
    \E i \in 0..(Len(s) - Len(sub)) : SubSeq(s, i + 1, i + Len(sub)) = sub

\* the Python test  s.startswith(c)  for a one-character prefix
StartsWithChar(s, c) == Len(s) > 0 /\ s[1] = c

----------------------------------------------------------------------------
(* _normalize_content *)

\* result.rstrip() applied to the joined text: '\n' is whitespace, so the
\* trailing whitespace-only lines go, then the trailing whitespace of the
\* last remaining line; an all-whitespace text becomes the empty string,
\* whose split is one empty line
RECURSIVE RStripText(_)
RStripText(lines) ==
    IF lines = <<>> THEN <<EmptyLine>>
    ELSE IF RStrip(lines[Len(lines)]) = <<>>
         THEN RStripText(SubSeq(lines, 1, Len(lines) - 1))
    ELSE [i \in 1..Len(lines) |->
            IF i = Len(lines) THEN RStrip(lines[i]) ELSE lines[i]]

_normalize_content(content) ==
    LET normalized_lines == [i \in 1..Len(content) |-> RStrip(content[i])]
    IN  RStripText(normalized_lines)

----------------------------------------------------------------------------
(* difflib.unified_diff(lines1, lines2, lineterm='', n=0), as called by      *)
(* _compare_content_with_diff_rules.  Indices are Python's: 0-based, the     *)
(* windows [alo, ahi) and [blo, bhi) half-open.  No element is junk: the     *)
(* popularity heuristic of SequenceMatcher needs 200 lines or more.          *)

\* length of the longest common run starting at a[i] and b[j] in the window
RECURSIVE MatchLen(_, _, _, _, _, _)
MatchLen(a, b, i, j, ahi, bhi) ==
    IF i < ahi /\ j < bhi /\ a[i + 1] = b[j + 1]
    THEN 1 + MatchLen(a, b, i + 1, j + 1, ahi, bhi)
    ELSE 0

\* SequenceMatcher.find_longest_match: a longest block; of those the one
\* starting earliest in a; of those the one starting earliest in b
FindLongestMatch(a, b, alo, ahi, blo, bhi) ==
    LET cands == {<<i, j, MatchLen(a, b, i, j, ahi, bhi)>> :
                      i \in alo..(ahi - 1), j \in blo..(bhi - 1)}
        good  == {c \in cands : c[3] > 0}
    IN  IF good = {} THEN <<alo, blo, 0>>
        ELSE CHOOSE c \in good :
                \A d \in good :
                    \/ c[3] > d[3]
                    \/ c[3] = d[3] /\ c[1] < d[1]
                    \/ c[3] = d[3] /\ c[1] = d[1] /\ c[2] <= d[2]

\* SequenceMatcher.get_matching_blocks, without the final sentinel
RECURSIVE MatchingBlocks(_, _, _, _, _, _)
MatchingBlocks(a, b, alo, ahi, blo, bhi) ==
    LET m == FindLongestMatch(a, b, alo, ahi, blo, bhi)
        i == m[1]
        j == m[2]
        k == m[3]
    IN  IF k = 0 THEN <<>>
        ELSE (IF alo < i /\ blo < j
                THEN MatchingBlocks(a, b, alo, i, blo, j) ELSE <<>>)
             \o <<m>>
             \o (IF i + k < ahi /\ j + k < bhi
                   THEN MatchingBlocks(a, b, i + k, ahi, j + k, bhi) ELSE <<>>)

FileHeaderFrom == <<"-", "-", "-", " ">>     \* '--- ' (no file name)
FileHeaderTo == <<"+", "+", "+", " ">>       \* '+++ '
HunkHeader == <<"@", "@">>                   \* '@@ -r +r @@', ranges left out

MinusLines(a, i1, i2) == [n \in 1..(i2 - i1) |-> <<"-">> \o a[i1 + n]]
PlusLines(b, j1, j2) == [n \in 1..(j2 - j1) |-> <<"+">> \o b[j1 + n]]

\* get_opcodes / get_grouped_opcodes(0) / the body of unified_diff: with no
\* context every replace, delete or insert between two matching blocks is a
\* hunk of its own: header, removed lines, added lines
RECURSIVE DiffHunks(_, _, _, _, _)
DiffHunks(a, b, blocks, i, j) ==
    IF blocks = <<>> THEN <<>>
    ELSE LET ai == blocks[1][1]
             bj == blocks[1][2]
             size == blocks[1][3]
             hunk == IF i < ai \/ j < bj
                     THEN <<HunkHeader>> \o MinusLines(a, i, ai) \o PlusLines(b, j, bj)
                     ELSE <<>>
         IN  hunk \o DiffHunks(a, b, Tail(blocks), ai + size, bj + size)

unified_diff(a, b) ==
    LET blocks == MatchingBlocks(a, b, 0, Len(a), 0, Len(b)) \o <<<<Len(a), Len(b), 0>>>>
        hunks == DiffHunks(a, b, blocks, 0, 0)
    IN  IF hunks = <<>> THEN <<>> ELSE <<FileHeaderFrom, FileHeaderTo>> \o hunks

----------------------------------------------------------------------------
(* _compare_content_with_diff_rules *)

HeaderLines == 3     \* diff_lines[3:]
SummaryCap == 5      \* violations[:5]
DetailCap == 10      \* violations[:10]

Min(x, y) == IF x <= y THEN x ELSE y

\* the Python slices  s[:n]  and  s[n:]
Take(s, n) == SubSeq(s, 1, Min(n, Len(s)))
Drop(s, n) == SubSeq(s, n + 1, Len(s))

\* one pass of the loop  for allowed in allowed_diffs  : TRUE iff this rule
\* sets is_allowed.  A rule whose named test fails falls through to the
\* last branch,  allowed in content
RuleAllows(allowed, content) ==
    IF allowed = NEWLINES /\ Strip(content) = <<>> THEN TRUE
    ELSE IF allowed = SPACES /\ content # <<>> /\ Strip(content) = <<>> THEN TRUE
    ELSE IF allowed = DASHES /\ Strip(content) = DASHES THEN TRUE
    ELSE Contains(content, allowed)

IsAllowed(rules, content) ==
    \E n \in 1..Len(rules) : RuleAllows(rules[n], content)

\* variant of the loop that inspects the added lines only
RECURSIVE CollectViolations_AddedOnly(_, _)
CollectViolations_AddedOnly(actual_diffs, rules) ==
    IF actual_diffs = <<>> THEN <<>>
    ELSE LET diff_line == Head(actual_diffs)
             rest == CollectViolations_AddedOnly(Tail(actual_diffs), rules)
         IN  IF StartsWithChar(diff_line, "+")
             THEN IF IsAllowed(rules, Tail(diff_line)) THEN rest
                  ELSE <<diff_line>> \o rest
             ELSE rest

\* the loop over actual_diffs that collects the violations
RECURSIVE CollectViolations(_, _)
CollectViolations(actual_diffs, rules) ==
    IF actual_diffs = <<>> THEN <<>>
    ELSE LET diff_line == Head(actual_diffs)
             rest == CollectViolations(Tail(actual_diffs), rules)
         IN  IF StartsWithChar(diff_line, "+") \/ StartsWithChar(diff_line, "-")
             THEN IF IsAllowed(rules, Tail(diff_line)) THEN rest
                  ELSE <<diff_line>> \o rest
             ELSE rest

\* what the returned explanation is built from: the first SummaryCap
\* contents, the first DetailCap diff lines, and the counts of further
\* violations that the text states (the f-string states none)
Msg(kind, viol) ==
    [kind |-> kind,
     summary |-> [n \in 1..Len(Take(viol, SummaryCap)) |-> Tail(viol[n])],
     detailed |-> Take(viol, DetailCap),
     stated_remainder |-> <<>>]

NoMsg == Msg("none", <<>>)

\* variant that normalizes the first content only
_compare_content_second_raw(c1, c2, rules) ==
    LET norm1 == _normalize_content(c1)
        norm2 == c2
        diff_lines == unified_diff(norm1, norm2)
        actual_diffs == IF Len(diff_lines) > HeaderLines
                        THEN Drop(diff_lines, HeaderLines) ELSE <<>>
        viol == CollectViolations(actual_diffs, rules)
    IN  IF norm1 = norm2
        THEN [ok |-> TRUE, violations |-> <<>>, msg |-> Msg("identical", <<>>)]
        ELSE IF viol # <<>>
        THEN [ok |-> FALSE, violations |-> viol, msg |-> Msg("violations", viol)]
        ELSE [ok |-> TRUE, violations |-> <<>>, msg |-> Msg("allowed", <<>>)]

\* the whole function: [ok, msg, violations]
_compare_content_with_diff_rules(c1, c2, rules) ==
    LET norm1 == _normalize_content(c1)
        norm2 == _normalize_content(c2)
        diff_lines == unified_diff(norm1, norm2)
        actual_diffs == IF Len(diff_lines) > HeaderLines
                        THEN Drop(diff_lines, HeaderLines) ELSE <<>>
        viol == CollectViolations(actual_diffs, rules)
    IN  IF norm1 = norm2
        THEN [ok |-> TRUE, violations |-> <<>>, msg |-> Msg("identical", <<>>)]
        ELSE IF viol # <<>>
        THEN [ok |-> FALSE, violations |-> viol, msg |-> Msg("violations", viol)]
        ELSE [ok |-> TRUE, violations |-> <<>>, msg |-> Msg("allowed", <<>>)]

\* one call of the comparator on the chosen arguments
Compare ==
    /\ cmp_pc = "call"
    /\ LET r == _compare_content_with_diff_rules(content1, content2, allowed_diffs)
       IN  /\ cmp_ok' = r.ok
           /\ cmp_msg' = r.msg
           /\ violations' = r.violations
    /\ cmp_pc' = "returned"
    /\ UNCHANGED <<content1, content2, allowed_diffs>>
    /\ UNCHANGED runVars
    /\ UNCHANGED extVars
    /\ UNCHANGED callVars

----------------------------------------------------------------------------
(* Inputs of the comparator *)

\* all texts of 1..n lines over a line alphabet
TextsOver(lines, n) == UNION {[1..k -> lines] : k \in 1..n}

\* general alphabet: blank, content, trailing and pure whitespace, a bare
\* horizontal rule, a table border and a line holding the word 'spaces'
GeneralLines ==
    { EmptyLine, <<"x">>, <<"x", " ">>, DASHES,
      <<"|", "-", "-", "-", "|">>, <<"u", "s", "e", " ">> \o SPACES }

\* blank / content alphabet
BlankLines == { EmptyLine, <<"x">> }

\* texts that repeat one line and end with a line of their own
RepeatTexts ==
    {[i \in 1..k |-> IF i = k THEN last ELSE l] :
        k \in 1..MaxRepeat, l \in {<<"x">>, <<"y">>}, last \in {<<"x">>, <<"y">>, <<"z">>}}

RuleLists ==
    { <<>>, <<NEWLINES>>, <<NEWLINES, SPACES, DASHES>>,
      <<NEWLINES, SPACES, DASHES, COT>> }

InputPairs ==
    (TextsOver(GeneralLines, MaxLines) \X TextsOver(GeneralLines, MaxLines))
    \cup (TextsOver(BlankLines, MaxBlankLines) \X TextsOver(BlankLines, MaxBlankLines))
    \cup (RepeatTexts \X RepeatTexts)

----------------------------------------------------------------------------
(* Section extraction *)

PROMPT == <<"*", "*", "[", "P", "r", "o", "m", "p", "t", "]", "*", "*">>
ASSISTANT == <<"*", "*", "[", "A", "s", "s", "i", "s", "t", "a", "n", "t", "]", "*", "*">>
CHAIN01 == <<"*", "*", "[", "C", "H", "A", "I", "N", "_", "0", "1", "]", "*", "*">>

\* '\n'.join(result_lines), as the lines of the joined string
JoinLines(result_lines) == IF result_lines = <<>> THEN <<EmptyLine>> ELSE result_lines

RECURSIVE UntilChain01(_)
UntilChain01(lines) ==
    IF lines = <<>> THEN <<>>
    ELSE IF Strip(Head(lines)) = CHAIN01 THEN <<Head(lines)>>
    ELSE <<Head(lines)>> \o UntilChain01(Tail(lines))

_extract_content_until_chain01(body) == JoinLines(UntilChain01(body))

\* variant that compares the raw line with the marker
RECURSIVE FromChain01_NoStrip(_)
FromChain01_NoStrip(lines) ==
    IF lines = <<>> THEN <<>>
    ELSE IF Head(lines) = CHAIN01 THEN lines
    ELSE FromChain01_NoStrip(Tail(lines))

RECURSIVE FromChain01(_)
FromChain01(lines) ==
    IF lines = <<>> THEN <<>>
    ELSE IF Strip(Head(lines)) = CHAIN01 THEN lines
    ELSE FromChain01(Tail(lines))

_extract_content_from_chain01(body) == JoinLines(FromChain01(body))

RECURSIVE PromptScan(_, _)
PromptScan(lines, in_prompt_section) ==
    IF lines = <<>> THEN <<>>
    ELSE IF Strip(Head(lines)) = PROMPT THEN PromptScan(Tail(lines), TRUE)
    ELSE IF Strip(Head(lines)) = ASSISTANT THEN <<>>
    ELSE IF in_prompt_section THEN <<Head(lines)>> \o PromptScan(Tail(lines), TRUE)
    ELSE PromptScan(Tail(lines), in_prompt_section)

_extract_prompt_section(body) == JoinLines(PromptScan(body, FALSE))

\* the document is passed to each of the three extraction functions once
\* (a returned text has one line at least: <<>> marks a function not called yet)
Unset == <<>>

NoSections == [until_chain01 |-> Unset, from_chain01 |-> Unset, prompt |-> Unset]

Call_extract_content_until_chain01 ==
    /\ cmp_pc = "extract"
    /\ call_ret.until_chain01 = Unset
    /\ call_ret' = [call_ret EXCEPT !.until_chain01 = _extract_content_until_chain01(call_args)]
    /\ UNCHANGED call_args
    /\ UNCHANGED <<all_limits, reasoning, removed>>
    /\ UNCHANGED cmpVars
    /\ UNCHANGED runVars
    /\ UNCHANGED extVars

Call_extract_content_from_chain01 ==
    /\ cmp_pc = "extract"
    /\ call_ret.from_chain01 = Unset
    /\ call_ret' = [call_ret EXCEPT !.from_chain01 = _extract_content_from_chain01(call_args)]
    /\ UNCHANGED call_args
    /\ UNCHANGED <<all_limits, reasoning, removed>>
    /\ UNCHANGED cmpVars
    /\ UNCHANGED runVars
    /\ UNCHANGED extVars

Call_extract_prompt_section ==
    /\ cmp_pc = "extract"
    /\ call_ret.prompt = Unset
    /\ call_ret' = [call_ret EXCEPT !.prompt = _extract_prompt_section(call_args)]
    /\ UNCHANGED call_args
    /\ UNCHANGED <<all_limits, reasoning, removed>>
    /\ UNCHANGED cmpVars
    /\ UNCHANGED runVars
    /\ UNCHANGED extVars

\* documents given to the extraction functions: marker lines, bare and
\* surrounded by whitespace, and content lines
MaxDocLines == 4

MarkerLines ==
    { PROMPT, ASSISTANT, CHAIN01, <<"x">>,
      <<" ">> \o CHAIN01, PROMPT \o <<" ">> }

MarkedDocuments == TextsOver(MarkerLines, MaxDocLines)

----------------------------------------------------------------------------
(* _extract_github_url.  The document is a sequence of characters here: the  *)
(* patterns look across line ends.                                           *)

\* the characters the regular expression class \s matches
RegexSpace == {" ", "\t", "\n"}

UpperCase == <<"A", "B", "C", "D", "E", "F", "G", "H", "I", "J", "K", "L", "M",
               "N", "O", "P", "Q", "R", "S", "T", "U", "V", "W", "X", "Y", "Z">>
LowerCase == <<"a", "b", "c", "d", "e", "f", "g", "h", "i", "j", "k", "l", "m",
               "n", "o", "p", "q", "r", "s", "t", "u", "v", "w", "x", "y", "z">>

\* case folding of re.IGNORECASE; ic is FALSE for a case-sensitive search
Fold(c, ic) ==
    IF ic /\ \E n \in 1..Len(UpperCase) : UpperCase[n] = c
    THEN LowerCase[CHOOSE n \in 1..Len(UpperCase) : UpperCase[n] = c]
    ELSE c

\* the literal of the first and of the third pattern
GITHUB_URL_EXACT ==
    <<"*", "*", "G", "i", "t", "H", "u", "b", " ", "U", "R", "L", ":", "*",
      "*">>

\* the literal of the second pattern
GITHUB_URL_STARS ==
    <<"*", "*", "G", "i", "t", "H", "u", "b", " ", "U", "R", "L", "*", "*">>

\* the literal of the fourth pattern
GITHUB_URL_PLAIN ==
    <<"G", "i", "t", "H", "u", "b", " ", "U", "R", "L">>

\* the literal that opens the captured group
HTTPS_GITHUB ==
    <<"h", "t", "t", "p", "s", ":", "/", "/", "g", "i", "t", "h", "u", "b",
      ".", "c", "o", "m", "/">>

HTTP ==
    <<"h", "t", "t", "p">>

COLON_SLASHES ==
    <<":", "/", "/">>

GITHUB_COM ==
    <<"g", "i", "t", "h", "u", "b", ".", "c", "o", "m">>

\* the literal lit matches in s at index i
LitAt(s, i, lit, ic) ==
    /\ i >= 1
    /\ i + Len(lit) - 1 <= Len(s)
    /\ \A k \in 1..Len(lit) : Fold(s[i + k - 1], ic) = Fold(lit[k], ic)

\* greedy \s*  from index i: the index after the run of whitespace
SpaceRunEnd(s, i) ==
    CHOOSE j \in i..(Len(s) + 1) :
        /\ \A k \in i..(j - 1) : s[k] \in RegexSpace
        /\ (j = Len(s) + 1 \/ s[j] \notin RegexSpace)

\* greedy [^\s\n]*  from index i: the index after the run
NonSpaceRunEnd(s, i) ==
    CHOOSE j \in i..(Len(s) + 1) :
        /\ \A k \in i..(j - 1) : s[k] \notin RegexSpace
        /\ (j = Len(s) + 1 \/ s[j] \in RegexSpace)

\* the group (https://github\.com/[^\s\n]+) at index i: the index after the
\* group, 0 when it does not match there
UrlAt(s, i, ic) ==
    IF /\ LitAt(s, i, HTTPS_GITHUB, ic)
       /\ i + Len(HTTPS_GITHUB) <= Len(s)
       /\ s[i + Len(HTTPS_GITHUB)] \notin RegexSpace
    THEN NonSpaceRunEnd(s, i + Len(HTTPS_GITHUB))
    ELSE 0

\* what a function returns for None, and a pattern that does not match
None == <<>>

Group(s, i, ic) == IF i >= 1 /\ UrlAt(s, i, ic) > 0 THEN SubSeq(s, i, UrlAt(s, i, ic) - 1) ELSE None

\* r'\*\*GitHub URL:\*\*\s+(https://github\.com/[^\s\n]+)' tried at index p
github_url_pattern(s, p) ==
    IF LitAt(s, p, GITHUB_URL_EXACT, FALSE)
    THEN LET a == p + Len(GITHUB_URL_EXACT)
             b == SpaceRunEnd(s, a)
         IN  IF b > a THEN Group(s, b, FALSE) ELSE None
    ELSE None

\* r'\*\*GitHub URL\*\*\s*:\s+(https://github\.com/[^\s\n]+)', re.IGNORECASE
alternative_pattern_1(s, p) ==
    IF LitAt(s, p, GITHUB_URL_STARS, TRUE)
    THEN LET a == p + Len(GITHUB_URL_STARS)
             b == SpaceRunEnd(s, a)
             d == SpaceRunEnd(s, b + 1)
         IN  IF b <= Len(s) /\ s[b] = ":" /\ d > b + 1 THEN Group(s, d, TRUE) ELSE None
    ELSE None

\* r'\*\*GitHub URL:\*\*[^\n]*?(https://github\.com/[^\s\n]+)', re.IGNORECASE:
\* the lazy [^\n]*? stops at the first place on the line where the group matches
alternative_pattern_2(s, p) ==
    IF LitAt(s, p, GITHUB_URL_EXACT, TRUE)
    THEN LET a == p + Len(GITHUB_URL_EXACT)
             places == {q \in a..Len(s) :
                          /\ \A k \in a..(q - 1) : s[k] # "\n"
                          /\ UrlAt(s, q, TRUE) > 0}
         IN  IF places = {} THEN None
             ELSE Group(s, CHOOSE q \in places : \A o \in places : q <= o, TRUE)
    ELSE None

\* r'GitHub URL[^:]*:\s*(https://github\.com/[^\s\n]+)', re.IGNORECASE:
\* [^:]* runs to the first colon after the literal
alternative_pattern_3(s, p) ==
    IF LitAt(s, p, GITHUB_URL_PLAIN, TRUE)
    THEN LET a == p + Len(GITHUB_URL_PLAIN)
             colons == {c \in a..Len(s) : s[c] = ":"}
         IN  IF colons = {} THEN None
             ELSE LET c == CHOOSE c \in colons : \A o \in colons : c <= o
                  IN  Group(s, SpaceRunEnd(s, c + 1), TRUE)
    ELSE None

\* r'https?://[^\s\n]*github\.com[^\s\n]*', re.IGNORECASE, tried at index p
robust_pattern(s, p) ==
    IF LitAt(s, p, HTTP, TRUE)
    THEN LET a == p + Len(HTTP)
             b == IF a <= Len(s) /\ Fold(s[a], TRUE) = "s" THEN a + 1 ELSE a
             c == b + Len(COLON_SLASHES)
             e == NonSpaceRunEnd(s, c)
         IN  IF /\ LitAt(s, b, COLON_SLASHES, TRUE)
                /\ \E q \in c..(e - Len(GITHUB_COM)) : LitAt(s, q, GITHUB_COM, TRUE)
             THEN SubSeq(s, p, e - 1)
             ELSE None
    ELSE None

\* re.search(pattern, document): the match at the leftmost index that has one
Search(pattern(_, _), s) ==
    LET starts == {p \in 1..Len(s) : pattern(s, p) # None}
    IN  IF starts = {} THEN None
        ELSE pattern(s, CHOOSE p \in starts : \A o \in starts : p <= o)

\* re.finditer(robust_pattern, document): the matches from left to right,
\* each search starting where the match before ended
RECURSIVE FindIterRobust(_, _)
FindIterRobust(s, from) ==
    LET starts == {p \in from..Len(s) : robust_pattern(s, p) # None}
    IN  IF starts = {} THEN <<>>
        ELSE LET p == CHOOSE p \in starts : \A o \in starts : p <= o
                 m == robust_pattern(s, p)
             IN  <<m>> \o FindIterRobust(s, p + Len(m))

\* max(github_urls, key=len): the first element of the greatest length
MaxByLen(github_urls) ==
    github_urls[CHOOSE n \in 1..Len(github_urls) :
                    /\ \A o \in 1..Len(github_urls) : Len(github_urls[o]) <= Len(github_urls[n])
                    /\ \A o \in 1..(n - 1) : Len(github_urls[o]) < Len(github_urls[n])]

\* variant that tries the loosest labelled pattern before the exact one
_extract_github_url_loosest_first(s) ==
    IF Search(alternative_pattern_3, s) # None THEN Search(alternative_pattern_3, s)
    ELSE IF Search(github_url_pattern, s) # None THEN Search(github_url_pattern, s)
    ELSE IF Search(alternative_pattern_1, s) # None THEN Search(alternative_pattern_1, s)
    ELSE IF Search(alternative_pattern_2, s) # None THEN Search(alternative_pattern_2, s)
    ELSE IF FindIterRobust(s, 1) # <<>> THEN MaxByLen(FindIterRobust(s, 1))
    ELSE None

_extract_github_url(s) ==
    IF Search(github_url_pattern, s) # None THEN Search(github_url_pattern, s)
    ELSE IF Search(alternative_pattern_1, s) # None THEN Search(alternative_pattern_1, s)
    ELSE IF Search(alternative_pattern_2, s) # None THEN Search(alternative_pattern_2, s)
    ELSE IF Search(alternative_pattern_3, s) # None THEN Search(alternative_pattern_3, s)
    ELSE IF FindIterRobust(s, 1) # <<>> THEN MaxByLen(FindIterRobust(s, 1))
    ELSE None

Call_extract_github_url ==
    /\ cmp_pc = "url"
    /\ call_ret' = _extract_github_url(call_args)
    /\ cmp_pc' = "url_returned"
    /\ UNCHANGED <<content1, content2, allowed_diffs, cmp_ok, cmp_msg, violations>>
    /\ UNCHANGED call_args
    /\ UNCHANGED runVars
    /\ UNCHANGED extVars

\* lines of the documents given to _extract_github_url
\* a labelled URL in the exact format
UrlLine1 ==
    <<"*", "*", "G", "i", "t", "H", "u", "b", " ", "U", "R", "L", ":", "*",
      "*", " ", "h", "t", "t", "p", "s", ":", "/", "/", "g", "i", "t",
      "h", "u", "b", ".", "c", "o", "m", "/", "a">>

\* the colon outside the emphasis
UrlLine2 ==
    <<"*", "*", "G", "i", "t", "H", "u", "b", " ", "U", "R", "L", "*", "*",
      " ", ":", " ", "h", "t", "t", "p", "s", ":", "/", "/", "g", "i",
      "t", "h", "u", "b", ".", "c", "o", "m", "/", "b", "b">>

\* a word between label and URL
UrlLine3 ==
    <<"*", "*", "G", "i", "t", "H", "u", "b", " ", "U", "R", "L", ":", "*",
      "*", " ", "s", "e", "e", " ", "h", "t", "t", "p", "s", ":", "/",
      "/", "g", "i", "t", "h", "u", "b", ".", "c", "o", "m", "/", "a">>

\* a plain label and a longer URL
UrlLine4 ==
    <<"G", "i", "t", "H", "u", "b", " ", "U", "R", "L", ":", " ", "h", "t",
      "t", "p", "s", ":", "/", "/", "g", "i", "t", "h", "u", "b", ".",
      "c", "o", "m", "/", "c", "c", "c">>

\* the exact label in lower case
UrlLine5 ==
    <<"*", "*", "g", "i", "t", "h", "u", "b", " ", "u", "r", "l", ":", "*",
      "*", " ", "h", "t", "t", "p", "s", ":", "/", "/", "g", "i", "t",
      "h", "u", "b", ".", "c", "o", "m", "/", "d", "d">>

\* two unlabelled URLs, the second one longer
UrlLine6 ==
    <<"h", "t", "t", "p", ":", "/", "/", "x", "/", "g", "i", "t", "h", "u",
      "b", ".", "c", "o", "m", "/", "e", " ", "h", "t", "t", "p", "s",
      ":", "/", "/", "g", "i", "t", "h", "u", "b", ".", "c", "o", "m",
      "/", "f", "f", "f", "f">>

\* one unlabelled URL
UrlLine7 ==
    <<"h", "t", "t", "p", "s", ":", "/", "/", "g", "i", "t", "h", "u", "b",
      ".", "c", "o", "m", "/", "a">>

\* the exact label alone
UrlLine8 ==
    <<"*", "*", "G", "i", "t", "H", "u", "b", " ", "U", "R", "L", ":", "*",
      "*">>

\* no URL
UrlLine9 ==
    <<"s", "e", "e">>

UrlLines == {UrlLine1, UrlLine2, UrlLine3, UrlLine4, UrlLine5,
             UrlLine6, UrlLine7, UrlLine8, UrlLine9}

MaxUrlLines == 2     \* lines per document

\* '\n'.join(lines) as a sequence of characters
RECURSIVE JoinChars(_)
JoinChars(lines) ==
    IF Len(lines) = 1 THEN lines[1]
    ELSE lines[1] \o <<"\n">> \o JoinChars(Tail(lines))

UrlDocuments == {JoinChars(t) : t \in TextsOver(UrlLines, MaxUrlLines)}

----------------------------------------------------------------------------
(* _validate_overall_md_format.  The content of the file is a sequence of    *)
(* characters; offsets are Python's, counted from 0.                         *)

\* the two status emoji, each one character of the content
CROSS_MARK == "U+274C"
CHECK_MARK == "U+2705"

\* the backquote character
BACKQUOTE == "U+0060"

\* the entries of required_sections
SECTION_TITLE ==
    <<"#", " ", "O", "v", "e", "r", "a", "l", "l", " ", "T", "e", "s", "t",
      " ", "R", "e", "p", "o", "r", "t", " ", "f", "o", "r">>

SECTION_LEGEND ==
    <<"*", "*", "E", "r", "r", "o", "r", " ", "C", "o", "d", "e", " ", "L",
      "e", "g", "e", "n", "d", ":", "*", "*">>

SECTION_DETAILED ==
    <<"#", "#", " ", "D", "e", "t", "a", "i", "l", "e", "d", " ", "M", "o",
      "d", "e", "l", " ", "P", "e", "r", "f", "o", "r", "m", "a", "n", "c",
      "e">>

SECTION_HUNYUAN ==
    <<"#", "#", "#", " ", "M", "o", "d", "e", "l", ":", " ", BACKQUOTE, "h", "u",
      "n", "y", "u", "a", "n", "-", "2", ".", "0", "-", "t", "h", "i", "n",
      "k", "i", "n", "g", "-", "d", "e", "v", "-", "2", "0", "2", "5", "1",
      "0", "1", "2", BACKQUOTE>>

SECTION_COMPARISON ==
    <<"#", "#", " ", "O", "v", "e", "r", "a", "l", "l", " ", "M", "o", "d",
      "e", "l", " ", "C", "o", "m", "p", "a", "r", "i", "s", "o", "n">>

HUNYUAN_NAME ==
    <<"h", "u", "n", "y", "u", "a", "n", "-", "2", ".", "0", "-", "t", "h",
      "i", "n", "k", "i", "n", "g", "-", "d", "e", "v", "-", "2", "0", "2",
      "5", "1", "0", "1", "2">>

MODEL_HEADER ==
    <<"#", "#", "#", " ", "M", "o", "d", "e", "l", ":">>

OVERALL_HEADER ==
    <<"#", "#", " ", "O", "v", "e", "r", "a", "l", "l">>

\* the literal part of the pattern for the standard model header
STANDARD_HEADER ==
    <<"#", "#", "#", " ", "M", "o", "d", "e", "l", ":", " ", BACKQUOTE, "s", "t",
      "a", "n", "d", "a", "r", "d">>

\* the literal part of the pattern for the solution_bf model header
BF_HEADER ==
    <<"#", "#", "#", " ", "M", "o", "d", "e", "l", ":", " ", BACKQUOTE, "s", "o",
      "l", "u", "t", "i", "o", "n", "_", "b", "f">>

SEPARATOR ==
    <<"\n", "-", "-", "-", "\n">>

FAIL_MARKER ==
    <<CROSS_MARK, " ", "F", "A", "I", "L">>

PASS_MARKER ==
    <<CHECK_MARK, " ", "P", "A", "S", "S">>

RUN_FILE ==
    <<"R", "u", "n", " ", "F", "i", "l", "e">>

MODEL_WORD ==
    <<"M", "o", "d", "e", "l">>

SOLUTION_BF ==
    <<"s", "o", "l", "u", "t", "i", "o", "n", "_", "b", "f">>

required_sections ==
    <<SECTION_TITLE, SECTION_LEGEND, SECTION_DETAILED, SECTION_HUNYUAN, SECTION_COMPARISON>>

ErrorsColumn == 7      \* parts[7]
MinColumns == 8        \* len(parts) >= 8
MinErrorCounts == 4    \* len(error_counts) >= 4
CeIndex == 3           \* error_counts[3]

\* sub occurs in s at offset i
OccursAt(s, sub, i) ==
    /\ i >= 0
    /\ i + Len(sub) <= Len(s)
    /\ s[i + 1] = sub[1]
    /\ SubSeq(s, i + 1, i + Len(sub)) = sub

\* s.find(sub, start): the least offset from start on where sub occurs, or -1
Find(s, sub, start) ==
    LET places == {i \in start..(Len(s) - Len(sub)) : OccursAt(s, sub, i)}
    IN  IF places = {} THEN -1
        ELSE CHOOSE i \in places : \A o \in places : i <= o

\* the test  sub in s
In(sub, s) == Find(s, sub, 0) # -1

\* s.rfind(c, 0, end) for a character c
RFindChar(s, c, end) ==
    LET places == {i \in 0..(end - 1) : s[i + 1] = c}
    IN  IF places = {} THEN -1
        ELSE CHOOSE i \in places : \A o \in places : i >= o

\* the slice s[a:b]
Slice(s, a, b) == SubSeq(s, a + 1, b)

\* s.split(c) for a character c
RECURSIVE Split(_, _)
Split(s, c) ==
    LET places == {i \in 1..Len(s) : s[i] = c}
    IN  IF places = {} THEN <<s>>
        ELSE LET i == CHOOSE i \in places : \A o \in places : i <= o
             IN  <<SubSeq(s, 1, i - 1)>> \o Split(SubSeq(s, i + 1, Len(s)), c)

\* re.search(pattern, content, flags=re.MULTILINE).start(), or -1, for the
\* patterns  ^header[^q]*q  with q the backquote: the header stands at the
\* start of a line and a backquote follows it somewhere (the class matches
\* line ends too)
HeaderMatchStart(content, header) ==
    LET places == {i \in 0..(Len(content) - Len(header)) :
                      /\ OccursAt(content, header, i)
                      /\ (i = 0 \/ content[i] = "\n")
                      /\ \E q \in (i + Len(header) + 1)..Len(content) : content[q] = BACKQUOTE}
    IN  IF places = {} THEN -1
        ELSE CHOOSE i \in places : \A o \in places : i <= o

\* the characters the regular expression class \w matches
WordChars ==
    {UpperCase[n] : n \in 1..Len(UpperCase)} \cup {LowerCase[n] : n \in 1..Len(LowerCase)}
    \cup {"0", "1", "2", "3", "4", "5", "6", "7", "8", "9", "_"}

\* re.search(r"\bsolution_bf(?:\.[A-Za-z0-9_]+)?\b", line): the name with a
\* word boundary on both sides; the optional extension starts with a dot,
\* which is a boundary itself
MatchesSolutionBf(line) ==
    \E i \in 0..(Len(line) - Len(SOLUTION_BF)) :
        /\ OccursAt(line, SOLUTION_BF, i)
        /\ (i = 0 \/ line[i] \notin WordChars)
        /\ (i + Len(SOLUTION_BF) = Len(line) \/ line[i + Len(SOLUTION_BF) + 1] \notin WordChars)

\* content[start:next_model], or content[start:] without a later model header
SectionToNextModel(content, start) ==
    LET next_model == Find(content, MODEL_HEADER, start + 1)
    IN  IF next_model = -1 THEN Slice(content, start, Len(content))
        ELSE Slice(content, start, next_model)

\* the while loop over  content.find("\n---\n", search_start): the offset of
\* the first separator whose preceding line neither starts nor ends with '|',
\* or -1
RECURSIVE NextStandaloneSeparator(_, _)
NextStandaloneSeparator(content, search_start) ==
    LET next_separator == Find(content, SEPARATOR, search_start)
        line_start == RFindChar(content, "\n", next_separator)
        line_before == Strip(Slice(content, line_start + 1, next_separator))
    IN  IF next_separator = -1 THEN -1
        ELSE IF ~StartsWithChar(line_before, "|")
                /\ ~(line_before # <<>> /\ line_before[Len(line_before)] = "|")
        THEN next_separator
        ELSE NextStandaloneSeparator(content, next_separator + 1)

\* content[standard_section_start:next_section]
StandardSection(content, standard_section_start) ==
    LET next_model == Find(content, MODEL_HEADER, standard_section_start + 1)
        next_overall == Find(content, OVERALL_HEADER, standard_section_start + 1)
        next_separator == NextStandaloneSeparator(content, standard_section_start + 1)
        next_section_positions == {next_model, next_overall, next_separator} \ {-1}
        next_section == IF next_section_positions = {} THEN Len(content)
                        ELSE CHOOSE i \in next_section_positions :
                                \A o \in next_section_positions : i <= o
    IN  Slice(content, standard_section_start, next_section)

\* hunyuan_section: from the first occurrence of the hunyuan header
hunyuan_section(content) ==
    SectionToNextModel(content, Find(content, SECTION_HUNYUAN, 0))

\* standard_section: from the match of the standard header
standard_section(content) ==
    StandardSection(content, HeaderMatchStart(content, STANDARD_HEADER))

\* bf_section: from the match of the solution_bf header
bf_section(content) ==
    SectionToNextModel(content, HeaderMatchStart(content, BF_HEADER))

\* parts = [p.strip() for p in line.split('|') if p.strip()]
Parts(line) ==
    LET cells == Split(line, "|")
        stripped == [n \in 1..Len(cells) |-> Strip(cells[n])]
    IN  SelectSeq(stripped, LAMBDA p : p # <<>>)

\* variant that reads the compile-error count from the runtime-error place
BfLineVerdict_CeFromRte(line) ==
    IF ~MatchesSolutionBf(line) THEN "ok"
    ELSE LET parts == Parts(line)
         IN  IF Len(parts) < MinColumns THEN "ok"
             ELSE LET errors_column == parts[ErrorsColumn + 1]
                      error_counts == Split(errors_column, "/")
                  IN  IF ~In(<<"/">>, errors_column) THEN "ok"
                      ELSE IF Len(error_counts) < MinErrorCounts THEN "ok"
                      ELSE IF Strip(error_counts[1]) # <<"0">> THEN "wa"
                      ELSE IF Strip(error_counts[CeIndex]) # <<"0">> THEN "ce"
                      ELSE "ok"

\* the verdict of one table line of the solution_bf section: "wa", "ce" or
\* "ok" (the line is skipped, or both counts are '0')
BfLineVerdict(line) ==
    IF ~MatchesSolutionBf(line) THEN "ok"
    ELSE LET parts == Parts(line)
         IN  IF Len(parts) < MinColumns THEN "ok"
             ELSE LET errors_column == parts[ErrorsColumn + 1]
                      error_counts == Split(errors_column, "/")
                  IN  IF ~In(<<"/">>, errors_column) THEN "ok"
                      ELSE IF Len(error_counts) < MinErrorCounts THEN "ok"
                      ELSE IF Strip(error_counts[1]) # <<"0">> THEN "wa"
                      ELSE IF Strip(error_counts[CeIndex + 1]) # <<"0">> THEN "ce"
                      ELSE "ok"

\* table_lines: the stripped lines of the section that hold '|' and neither
\* 'Run File' nor 'Model'
TableLines(section) ==
    LET lines == Split(section, "\n")
        kept == SelectSeq(lines, LAMBDA line :
                    In(<<"|">>, line) /\ ~In(RUN_FILE, line) /\ ~In(MODEL_WORD, line))
    IN  [n \in 1..Len(kept) |-> Strip(kept[n])]

\* the loop over table_lines: the verdict of the first line that returns
RECURSIVE BfVerdict(_)
BfVerdict(table_lines) ==
    IF table_lines = <<>> THEN "ok"
    ELSE IF BfLineVerdict(Head(table_lines)) # "ok" THEN BfLineVerdict(Head(table_lines))
    ELSE BfVerdict(Tail(table_lines))

\* the whole function on the content read from the file: the boolean and
\* which message is returned
_validate_overall_md_format(content) ==
    LET missing_sections == SelectSeq(required_sections, LAMBDA section : ~In(section, content))
        hunyuan_section_start == Find(content, SECTION_HUNYUAN, 0)
        standard_section_start == HeaderMatchStart(content, STANDARD_HEADER)
        bf_section_start == HeaderMatchStart(content, BF_HEADER)
    IN  IF missing_sections # <<>>
        THEN [ok |-> FALSE, msg |-> "missing_sections", missing |-> missing_sections]
        ELSE IF /\ In(HUNYUAN_NAME, content)
                /\ hunyuan_section_start # -1
                /\ ~In(FAIL_MARKER, hunyuan_section(content))
                /\ In(PASS_MARKER, hunyuan_section(content))
        THEN [ok |-> FALSE, msg |-> "hunyuan_should_fail", missing |-> <<>>]
        ELSE IF standard_section_start = -1
        THEN [ok |-> FALSE, msg |-> "missing_standard", missing |-> <<>>]
        ELSE IF ~In(PASS_MARKER, standard_section(content))
        THEN [ok |-> FALSE, msg |-> "standard_should_pass", missing |-> <<>>]
        ELSE IF /\ bf_section_start # -1
                /\ In(<<"|">>, bf_section(content))
                /\ BfVerdict(TableLines(bf_section(content))) # "ok"
        THEN [ok |-> FALSE, msg |-> BfVerdict(TableLines(bf_section(content))), missing |-> <<>>]
        ELSE [ok |-> TRUE, msg |-> "passed", missing |-> <<>>]

Call_validate_overall_md_format ==
    /\ cmp_pc = "format"
    /\ call_ret' = _validate_overall_md_format(call_args.content)
    /\ cmp_pc' = "format_returned"
    /\ UNCHANGED <<content1, content2, allowed_diffs, cmp_ok, cmp_msg, violations>>
    /\ UNCHANGED call_args
    /\ UNCHANGED runVars
    /\ UNCHANGED extVars

\* The reports the function is called on: an overall.md as the test runner
\* lays it out, described by what its sections hold, and the characters of
\* the file
TITLE_LINE ==
    <<"#", " ", "O", "v", "e", "r", "a", "l", "l", " ", "T", "e", "s", "t",
      " ", "R", "e", "p", "o", "r", "t", " ", "f", "o", "r", " ", "p">>

LEGEND_ITEM ==
    <<"-", " ", "W", "A", ":", " ", "W", "r", "o", "n", "g", " ", "A", "n",
      "s", "w", "e", "r">>

STATUS_FAIL ==
    <<"S", "t", "a", "t", "u", "s", ":", " ", CROSS_MARK, " ", "F", "A",
      "I", "L">>

STATUS_PASS ==
    <<"S", "t", "a", "t", "u", "s", ":", " ", CHECK_MARK, " ", "P", "A",
      "S", "S">>

STATUS_NONE ==
    <<"S", "t", "a", "t", "u", "s", ":", " ", "n", "/", "a">>

TABLE_HEADER ==
    <<"|", " ", "R", "u", "n", " ", "F", "i", "l", "e", " ", "|", " ", "S",
      "t", "a", "t", "u", "s", " ", "|", " ", "S", "c", "o", "r", "e", " ",
      "|", " ", "A", "v", "g", " ", "|", " ", "M", "a", "x", " ", "|", " ",
      "A", "v", "g", " ", "|", " ", "M", "a", "x", " ", "|", " ", "E", "r",
      "r", "o", "r", "s", " ", "|">>

TABLE_RULE ==
    <<"|", "-", "-", "-", "|", "-", "-", "-", "|", "-", "-", "-", "|", "-",
      "-", "-", "|", "-", "-", "-", "|", "-", "-", "-", "|", "-", "-", "-",
      "|", "-", "-", "-", "|">>

ROW_MIDDLE ==
    <<" ", "|", " ", "F", "A", "I", "L", " ", "|", " ", "1", "0", " ", "|",
      " ", "0", ".", "5", " ", "|", " ", "0", ".", "6", " ", "|", " ", "1",
      "2", " ", "|", " ", "1", "4", " ", "|", " ">>

BF_CPP ==
    <<"s", "o", "l", "u", "t", "i", "o", "n", "_", "b", "f", ".", "c", "p",
      "p">>

BRUTE_CPP ==
    <<"b", "r", "u", "t", "e", ".", "c", "p", "p">>

MaxBfRows == 1

\* a line of a table drawn with a bare rule under it
BORDERED_LINE == <<"|", " ", "c", "a", "s", "e", " ", "|">>

MaxBorders == 2

ZERO == <<"0">>
ONE == <<"1">>
TEN == <<"1", "0">>

BfRow(name, wa, tle, rte, ce) == [name |-> name, wa |-> wa, tle |-> tle, rte |-> rte, ce |-> ce]

BfRows ==
    {BfRow(BF_CPP, ZERO, ZERO, ZERO, ZERO), BfRow(BF_CPP, ONE, ZERO, ZERO, ZERO),
     BfRow(BF_CPP, ZERO, ONE, ZERO, ZERO), BfRow(BF_CPP, ZERO, ZERO, ONE, ZERO),
     BfRow(BF_CPP, ZERO, ZERO, ZERO, ONE), BfRow(BF_CPP, TEN, ZERO, ZERO, ZERO),
     BfRow(SOLUTION_BF, ZERO, ONE, ZERO, ONE), BfRow(BRUTE_CPP, ONE, ZERO, ZERO, ZERO)}

HunyuanBodies == {"fail", "pass", "neither", "both"}
StandardBodies == {"pass", "fail"}

\* bf_section: the report has a solution_bf section; bf: the rows of its
\* table; borders: how many bordered lines, each with a bare rule under it,
\* the standard section holds before its status
Reports ==
    {r \in [legend : BOOLEAN, hunyuan : HunyuanBodies, standard : StandardBodies,
            rule : BOOLEAN, bf_section : BOOLEAN,
            bf : UNION {[1..n -> BfRows] : n \in 0..MaxBfRows},
            borders : 0..MaxBorders] :
        ~r.bf_section => r.bf = <<>>}

RowLine(row) ==
    <<"|", " ">> \o row.name \o ROW_MIDDLE
    \o row.wa \o <<"/">> \o row.tle \o <<"/">> \o row.rte \o <<"/">> \o row.ce \o <<" ", "|">>

StatusLines(body) ==
    CASE body = "fail" -> <<STATUS_FAIL>>
      [] body = "pass" -> <<STATUS_PASS>>
      [] body = "both" -> <<STATUS_PASS, STATUS_FAIL>>
      [] OTHER -> <<STATUS_NONE>>

RECURSIVE Borders(_)
Borders(n) == IF n = 0 THEN <<>> ELSE <<BORDERED_LINE, DASHES>> \o Borders(n - 1)

ReportLines(report) ==
    <<TITLE_LINE, EmptyLine>>
    \o (IF report.legend THEN <<SECTION_LEGEND, LEGEND_ITEM, EmptyLine>> ELSE <<>>)
    \o <<SECTION_DETAILED, EmptyLine, SECTION_HUNYUAN>> \o StatusLines(report.hunyuan)
    \o <<EmptyLine, STANDARD_HEADER \o <<BACKQUOTE>>>>
    \o Borders(report.borders) \o StatusLines(report.standard)
    \o (IF report.rule THEN <<EmptyLine, DASHES>> ELSE <<>>)
    \o <<EmptyLine>>
    \o (IF ~report.bf_section THEN <<>>
        ELSE <<BF_HEADER \o <<BACKQUOTE>>, TABLE_HEADER, TABLE_RULE>>
             \o [n \in 1..Len(report.bf) |-> RowLine(report.bf[n])] \o <<EmptyLine>>)
    \o <<SECTION_COMPARISON, EmptyLine>>

FormatCalls == {[report |-> r, content |-> JoinChars(ReportLines(r))] : r \in Reports}

\* The headers a report must hold, and the reports that lack some of them:
\* a report in order (failing hunyuan model, passing standard model) with
\* the lines of the absent headers left out
ReportHeaders ==
    {SECTION_TITLE, SECTION_LEGEND, SECTION_DETAILED, SECTION_HUNYUAN,
     STANDARD_HEADER, SECTION_COMPARISON}

Unless(absent, header, lines) == IF header \in absent THEN <<>> ELSE lines

SectionLines(absent) ==
    Unless(absent, SECTION_TITLE, <<TITLE_LINE, EmptyLine>>)
    \o Unless(absent, SECTION_LEGEND, <<SECTION_LEGEND, LEGEND_ITEM, EmptyLine>>)
    \o Unless(absent, SECTION_DETAILED, <<SECTION_DETAILED, EmptyLine>>)
    \o Unless(absent, SECTION_HUNYUAN, <<SECTION_HUNYUAN>>)
    \o <<STATUS_FAIL, EmptyLine>>
    \o Unless(absent, STANDARD_HEADER, <<STANDARD_HEADER \o <<BACKQUOTE>>>>)
    \o <<STATUS_PASS, EmptyLine>>
    \o Unless(absent, SECTION_COMPARISON, <<SECTION_COMPARISON>>)
    \o <<EmptyLine>>

SectionCalls ==
    {[report |-> [absent |-> a], content |-> JoinChars(SectionLines(a))] :
        a \in SUBSET ReportHeaders}

----------------------------------------------------------------------------
(* The values of the limits: Python numbers, counted in tenths, and None *)

PyInt(n) == [kind |-> "int", tenths |-> 10 * n]
PyFloat(t) == [kind |-> "float", tenths |-> t]
PyStr(t) == [kind |-> "str", tenths |-> t]       \* the text of a number
PyNone == [kind |-> "None", tenths |-> 0]
NotExtracted == [kind |-> "not_extracted", tenths |-> 0]

IsNumber(v) == v.kind \in {"int", "float"}

\* the test  not v
Falsy(v) == v.kind = "None" \/ (IsNumber(v) /\ v.tenths = 0)

\* if v == int(v): v = int(v)
WholeToInt(v) == IF v.tenths % 10 = 0 THEN [kind |-> "int", tenths |-> v.tenths] ELSE v

\* variant of == that tells an int from the float of the same value
PyEq_SameType(a, b) ==
    a = b

\* a == b, as set() and dict keys use it
PyEq(a, b) ==
    IF IsNumber(a) /\ IsNumber(b) THEN a.tenths = b.tenths ELSE a = b

\* len(set(values))
PySetLen(values) ==
    Cardinality({i \in 1..Len(values) : \A j \in 1..(i - 1) : ~PyEq(values[j], values[i])})

DigitValue(c) ==
    CASE c = "0" -> 0 [] c = "1" -> 1 [] c = "2" -> 2 [] c = "3" -> 3 [] c = "4" -> 4
      [] c = "5" -> 5 [] c = "6" -> 6 [] c = "7" -> 7 [] c = "8" -> 8 [] c = "9" -> 9

RECURSIVE DigitsValue(_)
DigitsValue(digits) ==
    IF digits = <<>> THEN 0
    ELSE 10 * DigitsValue(SubSeq(digits, 1, Len(digits) - 1)) + DigitValue(digits[Len(digits)])

\* float(text) for the texts  \d+(?:\.\d+)?  with at most one digit after the
\* point, in tenths
FloatOfText(text) ==
    LET parts == Split(text, ".")
    IN  PyFloat(10 * DigitsValue(parts[1])
              + (IF Len(parts) > 1 THEN DigitValue(parts[2][1]) ELSE 0))

LimitSet(time, space) == [time |-> time, space |-> space]

NoLimits ==
    [report |-> LimitSet(NotExtracted, NotExtracted),
     problem_statement |-> LimitSet(NotExtracted, NotExtracted),
     requirements |-> LimitSet(NotExtracted, NotExtracted),
     metadata |-> LimitSet(NotExtracted, NotExtracted)]

Reasoning(kind, issues, table) == [kind |-> kind, issues |-> issues, table |-> table]

NoReasoning == Reasoning("none", <<>>, NoLimits)

\* what the report states:  Time Limit: **N seconds**  and  Memory Limit:
\* **N MB**, each the text of the number, or <<>> without the statement
NoStatement == <<>>

ReportStatements ==
    { [time |-> <<"1">>, space |-> <<"6", "4">>],
      [time |-> <<"2", ".", "0">>, space |-> <<"1", "2", "8">>],
      [time |-> <<"1">>, space |-> NoStatement],
      [time |-> NoStatement, space |-> NoStatement] }

\* time_limit = float(time_match.group(1)), int(time_limit) when whole;
\* None without a match
_extract_limits_from_report(statement) ==
    LimitSet(IF statement.time = NoStatement THEN PyNone
             ELSE WholeToInt(FloatOfText(statement.time)),
             IF statement.space = NoStatement THEN PyNone
             ELSE WholeToInt(FloatOfText(statement.space)))

\* what json.loads makes of the language model's response: an error, or an
\* object with the values of 'time' and 'space' (PyNone for null)
NotJson == [state |-> "error", has_time |-> FALSE, time |-> PyNone, space |-> PyNone]
JsonAnswer(has_time, time, space) ==
    [state |-> "ok", has_time |-> has_time, time |-> time, space |-> space]

GptAnswers ==
    { NotJson,
      JsonAnswer(TRUE, PyInt(1), PyInt(64)),             \* {"time": 1, "space": 64}
      JsonAnswer(TRUE, PyInt(2), PyInt(64)),             \* {"time": 2, "space": 64}
      JsonAnswer(TRUE, PyStr(10), PyFloat(640)),         \* {"time": "1.0", "space": 64.0}
      JsonAnswer(FALSE, PyNone, PyInt(64)),            \* {"space": 64}
      JsonAnswer(TRUE, PyNone, PyInt(64)) }            \* {"time": null, "space": 64}

\* the returned value None
NoDict == [state |-> "None", time |-> PyNone, space |-> PyNone]

\* float() of a string value; int() of None raises TypeError, caught
_extract_limits_with_gpt(answer) ==
    LET time_val == IF answer.time.kind = "str" THEN PyFloat(answer.time.tenths) ELSE answer.time
        space_val == IF answer.space.kind = "str" THEN PyFloat(answer.space.tenths) ELSE answer.space
    IN  IF answer.state = "error" THEN NoDict
        ELSE IF ~answer.has_time THEN NoDict
        ELSE IF ~IsNumber(time_val) \/ ~IsNumber(space_val) THEN NoDict
        ELSE [state |-> "dict", time |-> WholeToInt(time_val), space |-> WholeToInt(space_val)]

----------------------------------------------------------------------------
(* The checkout and the task checks that read it *)

Missing == [state |-> "missing", text |-> <<EmptyLine>>]
Unreadable == [state |-> "unreadable", text |-> <<EmptyLine>>]
File(t) == [state |-> "file", text |-> t]

SolutionFiles ==
    { Missing, Unreadable,
      File(<<CHAIN01, <<"y">>>>),               \* equal to the document region
      File(<<CHAIN01, <<"y">>, EmptyLine>>),    \* plus a final newline
      File(<<CHAIN01, DASHES, <<"y">>>>),       \* plus a horizontal rule
      File(<<CHAIN01, <<"z">>>>) }              \* other content

ProblemFiles ==
    { Missing, Unreadable,
      File(<<<<"x">>>>),                        \* equal to the prompt region
      File(<<<<"x">>, EmptyLine>>),             \* plus a final newline
      File(<<<<"z">>>>) }                       \* other content

\* runs/hunyuan-2.0-thinking-dev-20251012 in the checkout
HunyuanStates == {"missing", "not_a_directory", "no_sources", "has_sources"}

MaxOverallFiles == 2   \* files named overall.md in the checkout

\* requirements.json and metadata.json: absent, not JSON, or an object with
\* the values of its keys 'time' and 'space' (PyNone for an absent key)
JsonMissing == [state |-> "missing", time |-> PyNone, space |-> PyNone]
JsonMalformed == [state |-> "malformed", time |-> PyNone, space |-> PyNone]
JsonObject(time, space) == [state |-> "ok", time |-> time, space |-> space]

JsonFiles ==
    { JsonMissing, JsonMalformed,
      JsonObject(PyInt(1), PyInt(64)),              \* {"time": 1, "space": 64}
      JsonObject(PyFloat(10), PyInt(64)),           \* {"time": 1.0, "space": 64}
      JsonObject(PyInt(1), PyInt(128)),             \* {"time": 1, "space": 128}
      JsonObject(PyNone, PyInt(64)) }             \* {"space": 64}

\* checkouts that differ in the files the task checks read
TaskRepos ==
    [overall_count : 0..MaxOverallFiles, hunyuan : HunyuanStates,
     solution_md : SolutionFiles, problem_md : ProblemFiles,
     requirements : {JsonMissing}, metadata : {JsonMissing}]

\* checkouts that differ in the files the limits review reads
LimitRepos ==
    [overall_count : {0}, hunyuan : {"missing"},
     solution_md : {Missing}, problem_md : {Missing},
     requirements : JsonFiles, metadata : JsonFiles]

Repos == TaskRepos \cup LimitRepos

NoRepo == [overall_count |-> 0, hunyuan |-> "missing",
           solution_md |-> Missing, problem_md |-> Missing,
           requirements |-> JsonMissing, metadata |-> JsonMissing]

Documents ==
    [url : {"none", "invalid", "valid"},
     body : { <<PROMPT, <<"x">>, ASSISTANT, CHAIN01, <<"y">>>>,
              <<<<"x">>, <<"y">>>> }]

\* "raise" when os.listdir raises, else the boolean of the returned tuple
_check_hunyuan_cpp_files(r) ==
    IF r.hunyuan = "missing" THEN "false"
    ELSE IF r.hunyuan = "not_a_directory" THEN "raise"
    ELSE IF r.hunyuan = "no_sources" THEN "false"
    ELSE "true"

_validate_solution_md_consistency(r, doc) ==
    IF r.solution_md.state = "missing" THEN FALSE
    ELSE IF r.solution_md.state = "unreadable" THEN FALSE
    ELSE _compare_content_with_diff_rules(
             _extract_content_from_chain01(doc.body), r.solution_md.text,
             <<NEWLINES, SPACES, DASHES, COT>>).ok

_validate_problem_statement_md_consistency(r, doc) ==
    IF r.problem_md.state = "missing" THEN FALSE
    ELSE IF r.problem_md.state = "unreadable" THEN FALSE
    ELSE _compare_content_with_diff_rules(
             _extract_prompt_section(doc.body), r.problem_md.text,
             <<NEWLINES, SPACES, DASHES>>).ok

IsHorizontalLine(line) ==
    LET stripped_line == Strip(line)
    IN  \/ stripped_line = DASHES
        \/ /\ stripped_line # <<>>
           /\ \A n \in 1..Len(stripped_line) : stripped_line[n] = "-"
           /\ Len(stripped_line) >= 3

_validate_solution_md_no_horizontal_lines(r) ==
    IF r.solution_md.state = "missing" THEN FALSE
    ELSE IF r.solution_md.state = "unreadable" THEN FALSE
    ELSE \A n \in 1..Len(r.solution_md.text) : ~IsHorizontalLine(r.solution_md.text[n])

----------------------------------------------------------------------------
(* Task names and outcomes *)

SETUP == "GitHub Repository Setup"
HUNYUAN == "Hunyuan CPP Files Check"
FORMAT == "Overall.md Format Validation"
SOLUTION == "Solution.md Content Consistency"
PROBLEM == "Problem Statement.md Content Consistency"
HORIZONTAL == "Solution.md Horizontal Lines Check"
LIMITS == "Memory Limit vs Maximum Usage Check"
UTILITIES == "Utilities Delivery Validation"
VALIDATION_ERROR == "GitHub Validation Error"

PASS == "PASS"
FAIL == "FAIL"

Task(name, result, text) == [name |-> name, result |-> result, reasoning |-> text]

Outcome(name, valid) ==
    IF valid THEN Task(name, PASS, "passed") ELSE Task(name, FAIL, "failed")

----------------------------------------------------------------------------
(* _clone_repository(github_url, temp_dir), entered at pc = "clone_rm" and   *)
(* left at pc = "clone_ret" with clone_success set.  Every statement of it   *)
(* is inside  try ... except TimeoutExpired / except Exception: return False *)

ExitCodes == {"zero", "nonzero", "timeout", "error"}

\* if os.path.exists(temp_dir): shutil.rmtree(temp_dir)
Clone_RemoveExisting ==
    /\ pc = "clone_rm"
    /\ \/ /\ dir_exists
          /\ dir_exists' = FALSE
          /\ stale' = FALSE
          /\ pc' = "clone_ssh"
          /\ UNCHANGED <<clone_success, caught>>
       \/ /\ dir_exists                  \* rmtree raises
          /\ clone_success' = "false"
          /\ caught' = "rmtree"
          /\ pc' = "clone_ret"
          /\ UNCHANGED <<dir_exists, stale>>
       \/ /\ ~dir_exists
          /\ pc' = "clone_ssh"
          /\ UNCHANGED <<dir_exists, stale, clone_success, caught>>
    /\ UNCHANGED <<fn, document, results, response, temp_dir, repo,
                   overall_md_path, attempts, raised, ran, results_map, exit_code>>
    /\ UNCHANGED <<all_limits, reasoning, removed>>
    /\ UNCHANGED cmpVars
    /\ UNCHANGED callVars
    /\ UNCHANGED extVars

\* first attempt:  subprocess.run(['git', 'clone', '--depth=1', ssh_url, temp_dir],
\* timeout=120)  and the branch on its result; a failed clone may leave a
\* partial directory; git does not clone into a directory that holds files
Clone_SSH ==
    /\ pc = "clone_ssh"
    /\ \E exit \in ExitCodes :
          /\ attempts' = Append(attempts, [proto |-> "ssh", exit |-> exit,
                                           target_existed |-> dir_exists])
          /\ \/ /\ exit = "zero"
                /\ ~stale
                /\ dir_exists' = TRUE
                /\ repo' \in Repos
                /\ clone_success' = "true"
                /\ pc' = "clone_ret"
                /\ UNCHANGED caught
             \/ /\ exit = "nonzero"
                /\ dir_exists' \in (IF stale THEN {TRUE} ELSE BOOLEAN)
                /\ pc' = "clone_cleanup"
                /\ UNCHANGED <<repo, clone_success, caught>>
             \/ /\ exit \in {"timeout", "error"}
                /\ dir_exists' \in (IF stale THEN {TRUE} ELSE BOOLEAN)
                /\ clone_success' = "false"
                /\ caught' = exit
                /\ pc' = "clone_ret"
                /\ UNCHANGED repo
    /\ UNCHANGED <<fn, document, results, response, temp_dir, stale,
                   overall_md_path, raised, ran, results_map, exit_code>>
    /\ UNCHANGED <<all_limits, reasoning, removed>>
    /\ UNCHANGED cmpVars
    /\ UNCHANGED callVars
    /\ UNCHANGED extVars

\* variant of the clean up that leaves the partial directory in place
Clone_Cleanup_Skip ==
    /\ pc = "clone_cleanup"
    /\ pc' = "clone_https"
    /\ UNCHANGED <<dir_exists, stale, clone_success, caught>>
    /\ UNCHANGED <<fn, document, results, response, temp_dir, repo,
                   overall_md_path, attempts, raised, ran, results_map, exit_code>>
    /\ UNCHANGED <<all_limits, reasoning, removed>>
    /\ UNCHANGED cmpVars
    /\ UNCHANGED callVars
    /\ UNCHANGED extVars

\* clean up the failed attempt:  if os.path.exists(temp_dir): shutil.rmtree(temp_dir)
Clone_Cleanup ==
    /\ pc = "clone_cleanup"
    /\ \/ /\ dir_exists
          /\ dir_exists' = FALSE
          /\ stale' = FALSE
          /\ pc' = "clone_https"
          /\ UNCHANGED <<clone_success, caught>>
       \/ /\ dir_exists                  \* rmtree raises
          /\ clone_success' = "false"
          /\ caught' = "rmtree"
          /\ pc' = "clone_ret"
          /\ UNCHANGED <<dir_exists, stale>>
       \/ /\ ~dir_exists
          /\ pc' = "clone_https"
          /\ UNCHANGED <<dir_exists, stale, clone_success, caught>>
    /\ UNCHANGED <<fn, document, results, response, temp_dir, repo,
                   overall_md_path, attempts, raised, ran, results_map, exit_code>>
    /\ UNCHANGED <<all_limits, reasoning, removed>>
    /\ UNCHANGED cmpVars
    /\ UNCHANGED callVars
    /\ UNCHANGED extVars

\* fallback:  subprocess.run(['git', 'clone', '--depth=1', url, temp_dir],
\* timeout=120)  and the branch on its result
Clone_HTTPS ==
    /\ pc = "clone_https"
    /\ \E exit \in ExitCodes :
          /\ attempts' = Append(attempts, [proto |-> "https", exit |-> exit,
                                           target_existed |-> dir_exists])
          /\ \/ /\ exit = "zero"
                /\ ~stale
                /\ dir_exists' = TRUE
                /\ repo' \in Repos
                /\ clone_success' = "true"
                /\ pc' = "clone_ret"
                /\ UNCHANGED caught
             \/ /\ exit = "nonzero"
                /\ dir_exists' \in (IF stale THEN {TRUE} ELSE BOOLEAN)
                /\ clone_success' = "false"
                /\ pc' = "clone_ret"
                /\ UNCHANGED <<repo, caught>>
             \/ /\ exit \in {"timeout", "error"}
                /\ dir_exists' \in (IF stale THEN {TRUE} ELSE BOOLEAN)
                /\ clone_success' = "false"
                /\ caught' = exit
                /\ pc' = "clone_ret"
                /\ UNCHANGED repo
    /\ UNCHANGED <<fn, document, results, response, temp_dir, stale,
                   overall_md_path, raised, ran, results_map, exit_code>>
    /\ UNCHANGED <<all_limits, reasoning, removed>>
    /\ UNCHANGED cmpVars
    /\ UNCHANGED callVars
    /\ UNCHANGED extVars

----------------------------------------------------------------------------
(* Steps shared by the three entry points *)

\* temp_dir = tempfile.mkdtemp(prefix=...), first statement of the try block
Mkdtemp ==
    /\ pc = "mkdtemp"
    /\ \/ /\ temp_dir' = "dir"
          /\ dir_exists' = TRUE
          /\ pc' = "clone_rm"
          /\ UNCHANGED raised
       \/ /\ raised' = "mkdtemp"         \* mkdtemp raises OSError
          /\ pc' = "except"
          /\ UNCHANGED <<temp_dir, dir_exists>>
    /\ UNCHANGED <<fn, document, results, response, repo, overall_md_path,
                   attempts, clone_success, ran, results_map>>
    /\ UNCHANGED <<caught, stale, exit_code>>
    /\ UNCHANGED <<all_limits, reasoning, removed>>
    /\ UNCHANGED cmpVars
    /\ UNCHANGED callVars
    /\ UNCHANGED extVars

\* finally: if temp_dir and os.path.exists(temp_dir):
\*              try: shutil.rmtree(temp_dir)  except Exception: pass
Finally ==
    /\ pc = "finally"
    /\ \/ /\ temp_dir # "None" /\ dir_exists
          /\ dir_exists' = FALSE
          /\ stale' = FALSE
       \/ /\ temp_dir # "None" /\ dir_exists    \* rmtree raises, error ignored
          /\ UNCHANGED <<dir_exists, stale>>
       \/ /\ ~(temp_dir # "None" /\ dir_exists)
          /\ UNCHANGED <<dir_exists, stale>>
    /\ pc' = "returned"
    /\ UNCHANGED <<fn, document, results, response, temp_dir, repo,
                   overall_md_path, attempts, clone_success, raised, ran, results_map,
                   caught, exit_code>>
    /\ UNCHANGED <<all_limits, reasoning, removed>>
    /\ UNCHANGED cmpVars
    /\ UNCHANGED callVars
    /\ UNCHANGED extVars

----------------------------------------------------------------------------
(* validate_github_requirements_detailed *)

\* Step 1a: GitHub URL extraction; a return inside try runs the finally block
D_ExtractUrl ==
    /\ fn = "detailed" /\ pc = "start"
    /\ IF document.url = "none"
       THEN /\ results' = Append(results, Task(SETUP, FAIL, "no_url"))
            /\ pc' = "finally"
       ELSE /\ pc' = "parse_url"
            /\ UNCHANGED results
    /\ UNCHANGED <<fn, document, response, temp_dir, dir_exists, repo, overall_md_path,
                   attempts, clone_success, raised, ran, results_map>>
    /\ UNCHANGED <<caught, stale, exit_code>>
    /\ UNCHANGED <<all_limits, reasoning, removed>>
    /\ UNCHANGED cmpVars
    /\ UNCHANGED callVars
    /\ UNCHANGED extVars

\* Step 1b: GitHub URL parsing
D_ParseUrl ==
    /\ fn = "detailed" /\ pc = "parse_url"
    /\ IF document.url = "invalid"
       THEN /\ results' = Append(results, Task(SETUP, FAIL, "invalid_url"))
            /\ pc' = "finally"
       ELSE /\ pc' = "mkdtemp"
            /\ UNCHANGED results
    /\ UNCHANGED <<fn, document, response, temp_dir, dir_exists, repo, overall_md_path,
                   attempts, clone_success, raised, ran, results_map>>
    /\ UNCHANGED <<caught, stale, exit_code>>
    /\ UNCHANGED <<all_limits, reasoning, removed>>
    /\ UNCHANGED cmpVars
    /\ UNCHANGED callVars
    /\ UNCHANGED extVars

\* variant of step 1c that records the failed clone and goes on
D_AfterClone_NoReturn ==
    /\ fn = "detailed" /\ pc = "clone_ret"
    /\ IF clone_success # "true"
       THEN results' = Append(results, Task(SETUP, FAIL, "clone_failed"))
       ELSE UNCHANGED results
    /\ pc' = "find_overall"
    /\ UNCHANGED <<fn, document, response, temp_dir, dir_exists, repo, overall_md_path,
                   attempts, clone_success, raised, ran, results_map>>
    /\ UNCHANGED <<caught, stale, exit_code>>
    /\ UNCHANGED <<all_limits, reasoning, removed>>
    /\ UNCHANGED cmpVars
    /\ UNCHANGED callVars
    /\ UNCHANGED extVars

\* Step 1c, after _clone_repository returned
D_AfterClone ==
    /\ fn = "detailed" /\ pc = "clone_ret"
    /\ IF clone_success # "true"
       THEN /\ results' = Append(results, Task(SETUP, FAIL, "clone_failed"))
            /\ pc' = "finally"
       ELSE /\ pc' = "find_overall"
            /\ UNCHANGED results
    /\ UNCHANGED <<fn, document, response, temp_dir, dir_exists, repo, overall_md_path,
                   attempts, clone_success, raised, ran, results_map>>
    /\ UNCHANGED <<caught, stale, exit_code>>
    /\ UNCHANGED <<all_limits, reasoning, removed>>
    /\ UNCHANGED cmpVars
    /\ UNCHANGED callVars
    /\ UNCHANGED extVars

\* Step 1d: overall.md detection, then the setup result that is appended
\* after the if / elif / else, whichever branch was taken
D_FindOverall ==
    /\ fn = "detailed" /\ pc = "find_overall"
    /\ LET missing == IF repo.overall_count = 0
                      THEN <<Task(SETUP, FAIL, "no_overall_md")>> ELSE <<>>
       IN  results' = results \o missing \o <<Task(SETUP, PASS, "setup_completed")>>
    /\ overall_md_path' = IF repo.overall_count = 0 THEN "None" ELSE "path"
    /\ pc' = "hunyuan"
    /\ UNCHANGED <<fn, document, response, temp_dir, dir_exists, repo,
                   attempts, clone_success, raised, ran, results_map>>
    /\ UNCHANGED <<caught, stale, exit_code>>
    /\ UNCHANGED <<all_limits, reasoning, removed>>
    /\ UNCHANGED cmpVars
    /\ UNCHANGED callVars
    /\ UNCHANGED extVars

\* variant of task 2 that returns the list as soon as the check fails
D_Task2_Hunyuan_ReturnOnFail ==
    /\ fn = "detailed" /\ pc = "hunyuan"
    /\ ran' = Append(ran, HUNYUAN)
    /\ IF _check_hunyuan_cpp_files(repo) = "raise"
       THEN /\ raised' = "listdir"
            /\ pc' = "except"
            /\ UNCHANGED results
       ELSE /\ results' = Append(results,
                              Outcome(HUNYUAN, _check_hunyuan_cpp_files(repo) = "true"))
            /\ pc' = IF _check_hunyuan_cpp_files(repo) = "true" THEN "format" ELSE "finally"
            /\ UNCHANGED raised
    /\ UNCHANGED <<fn, document, response, temp_dir, dir_exists, repo, overall_md_path,
                   attempts, clone_success, results_map>>
    /\ UNCHANGED <<caught, stale, exit_code>>
    /\ UNCHANGED <<all_limits, reasoning, removed>>
    /\ UNCHANGED cmpVars
    /\ UNCHANGED callVars
    /\ UNCHANGED extVars

\* Task 2: Hunyuan CPP files check; os.listdir is not guarded
D_Task2_Hunyuan ==
    /\ fn = "detailed" /\ pc = "hunyuan"
    /\ ran' = Append(ran, HUNYUAN)
    /\ IF _check_hunyuan_cpp_files(repo) = "raise"
       THEN /\ raised' = "listdir"
            /\ pc' = "except"
            /\ UNCHANGED results
       ELSE /\ results' = Append(results,
                              Outcome(HUNYUAN, _check_hunyuan_cpp_files(repo) = "true"))
            /\ pc' = "format"
            /\ UNCHANGED raised
    /\ UNCHANGED <<fn, document, response, temp_dir, dir_exists, repo, overall_md_path,
                   attempts, clone_success, results_map>>
    /\ UNCHANGED <<caught, stale, exit_code>>
    /\ UNCHANGED <<all_limits, reasoning, removed>>
    /\ UNCHANGED cmpVars
    /\ UNCHANGED callVars
    /\ UNCHANGED extVars

\* Task 3: overall.md format validation
D_Task3_Format ==
    /\ fn = "detailed" /\ pc = "format"
    /\ IF overall_md_path = "path"
       THEN /\ \E format_valid \in BOOLEAN :
                  results' = Append(results, Outcome(FORMAT, format_valid))
            /\ ran' = Append(ran, FORMAT)
       ELSE /\ results' = Append(results, Task(FORMAT, FAIL, "file_not_found"))
            /\ UNCHANGED ran
    /\ pc' = "solution"
    /\ UNCHANGED <<fn, document, response, temp_dir, dir_exists, repo, overall_md_path,
                   attempts, clone_success, raised, results_map>>
    /\ UNCHANGED <<caught, stale, exit_code>>
    /\ UNCHANGED <<all_limits, reasoning, removed>>
    /\ UNCHANGED cmpVars
    /\ UNCHANGED callVars
    /\ UNCHANGED extVars

\* Task 4: solution.md content consistency
D_Task4_Solution ==
    /\ fn = "detailed" /\ pc = "solution"
    /\ results' = Append(results,
                         Outcome(SOLUTION, _validate_solution_md_consistency(repo, document)))
    /\ ran' = Append(ran, SOLUTION)
    /\ pc' = "problem"
    /\ UNCHANGED <<fn, document, response, temp_dir, dir_exists, repo, overall_md_path,
                   attempts, clone_success, raised, results_map>>
    /\ UNCHANGED <<caught, stale, exit_code>>
    /\ UNCHANGED <<all_limits, reasoning, removed>>
    /\ UNCHANGED cmpVars
    /\ UNCHANGED callVars
    /\ UNCHANGED extVars

\* Task 5: problem_statement.md content consistency
D_Task5_Problem ==
    /\ fn = "detailed" /\ pc = "problem"
    /\ results' = Append(results,
                         Outcome(PROBLEM, _validate_problem_statement_md_consistency(repo, document)))
    /\ ran' = Append(ran, PROBLEM)
    /\ pc' = "horizontal"
    /\ UNCHANGED <<fn, document, response, temp_dir, dir_exists, repo, overall_md_path,
                   attempts, clone_success, raised, results_map>>
    /\ UNCHANGED <<caught, stale, exit_code>>
    /\ UNCHANGED <<all_limits, reasoning, removed>>
    /\ UNCHANGED cmpVars
    /\ UNCHANGED callVars
    /\ UNCHANGED extVars

\* Task 6: solution.md horizontal lines check
D_Task6_Horizontal ==
    /\ fn = "detailed" /\ pc = "horizontal"
    /\ results' = Append(results,
                         Outcome(HORIZONTAL, _validate_solution_md_no_horizontal_lines(repo)))
    /\ ran' = Append(ran, HORIZONTAL)
    /\ pc' = "limits"
    /\ UNCHANGED <<fn, document, response, temp_dir, dir_exists, repo, overall_md_path,
                   attempts, clone_success, raised, results_map>>
    /\ UNCHANGED <<caught, stale, exit_code>>
    /\ UNCHANGED <<all_limits, reasoning, removed>>
    /\ UNCHANGED cmpVars
    /\ UNCHANGED callVars
    /\ UNCHANGED extVars

\* Task 7: memory limit vs maximum usage check
D_Task7_Limits ==
    /\ fn = "detailed" /\ pc = "limits"
    /\ IF overall_md_path = "path"
       THEN /\ \E limits_valid \in BOOLEAN :
                  results' = Append(results, Outcome(LIMITS, limits_valid))
            /\ ran' = Append(ran, LIMITS)
       ELSE /\ results' = Append(results, Task(LIMITS, FAIL, "file_not_found"))
            /\ UNCHANGED ran
    /\ pc' = "utilities"
    /\ UNCHANGED <<fn, document, response, temp_dir, dir_exists, repo, overall_md_path,
                   attempts, clone_success, raised, results_map>>
    /\ UNCHANGED <<caught, stale, exit_code>>
    /\ UNCHANGED <<all_limits, reasoning, removed>>
    /\ UNCHANGED cmpVars
    /\ UNCHANGED callVars
    /\ UNCHANGED extVars

\* Task 8: utilities delivery validation, then  return results
D_Task8_Utilities ==
    /\ fn = "detailed" /\ pc = "utilities"
    /\ \E utilities_valid \in BOOLEAN :
          results' = Append(results, Outcome(UTILITIES, utilities_valid))
    /\ ran' = Append(ran, UTILITIES)
    /\ pc' = "finally"
    /\ UNCHANGED <<fn, document, response, temp_dir, dir_exists, repo, overall_md_path,
                   attempts, clone_success, raised, results_map>>
    /\ UNCHANGED <<caught, stale, exit_code>>
    /\ UNCHANGED <<all_limits, reasoning, removed>>
    /\ UNCHANGED cmpVars
    /\ UNCHANGED callVars
    /\ UNCHANGED extVars

\* except Exception as e: if not results: results.append(error); return results
D_Except ==
    /\ fn = "detailed" /\ pc = "except"
    /\ results' = IF results = <<>>
                  THEN Append(results, Task(VALIDATION_ERROR, FAIL, "exception"))
                  ELSE results
    /\ pc' = "finally"
    /\ UNCHANGED <<fn, document, response, temp_dir, dir_exists, repo, overall_md_path,
                   attempts, clone_success, raised, ran, results_map>>
    /\ UNCHANGED <<caught, stale, exit_code>>
    /\ UNCHANGED <<all_limits, reasoning, removed>>
    /\ UNCHANGED cmpVars
    /\ UNCHANGED callVars
    /\ UNCHANGED extVars

----------------------------------------------------------------------------
(* DocumentReviewSystem.run_reviews: the task list becomes a mapping *)

\* for task_name, result in github_tasks: results[task_name] = result
RECURSIVE StoreAll(_, _)
StoreAll(map, github_tasks) ==
    IF github_tasks = <<>> THEN map
    ELSE LET t == Head(github_tasks)
             stored == [n \in (DOMAIN map) \cup {t.name} |->
                           IF n = t.name THEN t.result ELSE map[n]]
         IN  StoreAll(stored, Tail(github_tasks))

EmptyMap == [n \in {} |-> FAIL]

\* an AI review of the reviewers dictionary, whose keys are distinct
UNIQUE_SOLUTION == "Unique Solution Validation"

\* the results dictionary before the GitHub tasks are stored: empty with
\* --github-only, else the outcome of the AI reviews, by name
AiResults ==
    {EmptyMap, [n \in {UNIQUE_SOLUTION} |-> PASS], [n \in {UNIQUE_SOLUTION} |-> FAIL]}

RunReviews_Store ==
    /\ fn = "detailed" /\ pc = "returned"
    /\ \E ai \in AiResults : results_map' = StoreAll(ai, results)
    /\ pc' = "stored"
    /\ UNCHANGED <<fn, document, results, response, temp_dir, dir_exists, repo,
                   overall_md_path, attempts, clone_success, raised, ran>>
    /\ UNCHANGED <<caught, stale, exit_code>>
    /\ UNCHANGED <<all_limits, reasoning, removed>>
    /\ UNCHANGED cmpVars
    /\ UNCHANGED callVars
    /\ UNCHANGED extVars

----------------------------------------------------------------------------
(* main: the exit code *)

NoExit == -1           \* sys.exit not called yet

\* [name for name, result in results.items() if result.result == ReviewResult.FAIL]
failed_reviews ==
    {name \in DOMAIN results_map : results_map[name] = FAIL}

\* after run_reviews returned:  sys.exit(1) if failed_reviews else sys.exit(0)
Main_Exit ==
    /\ fn = "detailed" /\ pc = "stored"
    /\ exit_code' = IF failed_reviews # {} THEN 1 ELSE 0
    /\ pc' = "exited"
    /\ UNCHANGED <<fn, document, results, response, temp_dir, dir_exists, repo,
                   overall_md_path, attempts, clone_success, raised, ran, results_map>>
    /\ UNCHANGED <<caught, stale>>
    /\ UNCHANGED <<all_limits, reasoning, removed>>
    /\ UNCHANGED cmpVars
    /\ UNCHANGED callVars
    /\ UNCHANGED extVars

\* The names as their words:  keyword in name  holds when the words of the
\* keyword stand next to each other in the name
GITHUB_REQUIREMENTS == "GitHub Requirements Validation"

NameWords(name) ==
    CASE name = GITHUB_REQUIREMENTS -> <<"GitHub", "Requirements", "Validation">>
      [] name = SETUP -> <<"GitHub", "Repository", "Setup">>
      [] name = HUNYUAN -> <<"Hunyuan", "CPP", "Files", "Check">>
      [] name = FORMAT -> <<"Overall.md", "Format", "Validation">>
      [] name = SOLUTION -> <<"Solution.md", "Content", "Consistency">>
      [] name = PROBLEM -> <<"Problem", "Statement.md", "Content", "Consistency">>
      [] name = HORIZONTAL -> <<"Solution.md", "Horizontal", "Lines", "Check">>
      [] name = LIMITS -> <<"Memory", "Limit", "vs", "Maximum", "Usage", "Check">>
      [] name = UTILITIES -> <<"Utilities", "Delivery", "Validation">>
      [] name = VALIDATION_ERROR -> <<"GitHub", "Validation", "Error">>
      [] name = UNIQUE_SOLUTION -> <<"Unique", "Solution", "Validation">>

KeywordIn(keyword, name) ==
    LET k == NameWords(keyword)
        n == NameWords(name)
    IN  \E i \in 1..(Len(n) - Len(k) + 1) : SubSeq(n, i, i + Len(k) - 1) = k

\* the list github_keywords of main and of generate_report
github_keywords ==
    {GITHUB_REQUIREMENTS, SETUP, HUNYUAN, FORMAT, SOLUTION, PROBLEM, HORIZONTAL,
     LIMITS, UTILITIES}

\* any(keyword in name for keyword in github_keywords)
AnyKeywordIn(name) == \E keyword \in github_keywords : KeywordIn(keyword, name)

\* main: the failures its exit message counts as GitHub and as AI
github_failures == {name \in failed_reviews : AnyKeywordIn(name)}

ai_failures == {name \in failed_reviews : ~AnyKeywordIn(name)}

\* generate_report: the results it lists as GitHub and as AI, and the
\* failures it counts for each (no result is a skipped placeholder here)
github_results == {name \in DOMAIN results_map : AnyKeywordIn(name)}

ai_results == {name \in DOMAIN results_map : ~AnyKeywordIn(name)}

github_failed ==
    Cardinality(github_results)
    - Cardinality({name \in github_results : results_map[name] = PASS})

ai_failed ==
    Cardinality(ai_results)
    - Cardinality({name \in ai_results : results_map[name] = PASS})

\* an exception before run_reviews is called (the document cannot be
\* loaded):  except Exception: sys.exit(1)
Main_Fatal ==
    /\ fn = "detailed" /\ pc = "start"
    /\ exit_code' = 1
    /\ pc' = "fatal"
    /\ UNCHANGED <<fn, document, results, response, temp_dir, dir_exists, repo,
                   overall_md_path, attempts, clone_success, raised, ran, results_map>>
    /\ UNCHANGED <<caught, stale>>
    /\ UNCHANGED <<all_limits, reasoning, removed>>
    /\ UNCHANGED cmpVars
    /\ UNCHANGED callVars
    /\ UNCHANGED extVars

----------------------------------------------------------------------------
(* validate_github_requirements: one verdict, first failing step returns *)

\* Steps 1 and 2, before the try block: a failure returns at once
S_ExtractUrl ==
    /\ fn = "simple" /\ pc = "start"
    /\ IF document.url = "none"
       THEN response' = FAIL /\ pc' = "returned"
       ELSE IF document.url = "invalid"
       THEN response' = FAIL /\ pc' = "returned"
       ELSE pc' = "mkdtemp" /\ UNCHANGED response
    /\ UNCHANGED <<fn, document, results, temp_dir, dir_exists, repo, overall_md_path,
                   attempts, clone_success, raised, ran, results_map>>
    /\ UNCHANGED <<caught, stale, exit_code>>
    /\ UNCHANGED <<all_limits, reasoning, removed>>
    /\ UNCHANGED cmpVars
    /\ UNCHANGED callVars
    /\ UNCHANGED extVars

\* Step 3, after _clone_repository returned
S_AfterClone ==
    /\ fn = "simple" /\ pc = "clone_ret"
    /\ IF clone_success # "true"
       THEN response' = FAIL /\ pc' = "finally"
       ELSE pc' = "s_body" /\ UNCHANGED response
    /\ UNCHANGED <<fn, document, results, temp_dir, dir_exists, repo, overall_md_path,
                   attempts, clone_success, raised, ran, results_map>>
    /\ UNCHANGED <<caught, stale, exit_code>>
    /\ UNCHANGED <<all_limits, reasoning, removed>>
    /\ UNCHANGED cmpVars
    /\ UNCHANGED callVars
    /\ UNCHANGED extVars

\* Steps 4 to 10: the checks in order, each failure returning FAIL at once,
\* PASS after the last; format_valid and limits_valid are the outcomes of
\* the two checks of the overall.md content
S_Body ==
    /\ fn = "simple" /\ pc = "s_body"
    /\ \E format_valid \in BOOLEAN, limits_valid \in BOOLEAN :
          IF repo.overall_count = 0
          THEN /\ response' = FAIL /\ pc' = "finally"
               /\ UNCHANGED <<ran, raised>>
          ELSE IF _check_hunyuan_cpp_files(repo) = "raise"
          THEN /\ raised' = "listdir" /\ pc' = "except"
               /\ ran' = ran \o <<HUNYUAN>>
               /\ UNCHANGED response
          ELSE IF _check_hunyuan_cpp_files(repo) = "false"
          THEN /\ response' = FAIL /\ pc' = "finally"
               /\ ran' = ran \o <<HUNYUAN>>
               /\ UNCHANGED raised
          ELSE IF ~format_valid
          THEN /\ response' = FAIL /\ pc' = "finally"
               /\ ran' = ran \o <<HUNYUAN, FORMAT>>
               /\ UNCHANGED raised
          ELSE IF ~_validate_solution_md_consistency(repo, document)
          THEN /\ response' = FAIL /\ pc' = "finally"
               /\ ran' = ran \o <<HUNYUAN, FORMAT, SOLUTION>>
               /\ UNCHANGED raised
          ELSE IF ~_validate_problem_statement_md_consistency(repo, document)
          THEN /\ response' = FAIL /\ pc' = "finally"
               /\ ran' = ran \o <<HUNYUAN, FORMAT, SOLUTION, PROBLEM>>
               /\ UNCHANGED raised
          ELSE IF ~_validate_solution_md_no_horizontal_lines(repo)
          THEN /\ response' = FAIL /\ pc' = "finally"
               /\ ran' = ran \o <<HUNYUAN, FORMAT, SOLUTION, PROBLEM, HORIZONTAL>>
               /\ UNCHANGED raised
          ELSE /\ response' = IF limits_valid THEN PASS ELSE FAIL
               /\ pc' = "finally"
               /\ ran' = ran \o <<HUNYUAN, FORMAT, SOLUTION, PROBLEM, HORIZONTAL, LIMITS>>
               /\ UNCHANGED raised
    /\ UNCHANGED <<fn, document, results, temp_dir, dir_exists, repo, overall_md_path,
                   attempts, clone_success, results_map>>
    /\ UNCHANGED <<caught, stale, exit_code>>
    /\ UNCHANGED <<all_limits, reasoning, removed>>
    /\ UNCHANGED cmpVars
    /\ UNCHANGED callVars
    /\ UNCHANGED extVars

----------------------------------------------------------------------------
(* LimitsConsistencyReviewer.review *)

\* Steps 1 to 4, before the try block: report limits, prompt region, limits
\* from the prompt region through the language model, GitHub URL; each
\* failure returns at once
L_Pre ==
    /\ fn = "limits" /\ pc = "start"
    /\ \E statement \in ReportStatements, answer \in GptAnswers :
          LET report_limits == _extract_limits_from_report(statement)
              problem_limits == _extract_limits_with_gpt(answer)
              step1 == [all_limits EXCEPT !.report = report_limits]
              step3 == [step1 EXCEPT !.problem_statement =
                           LimitSet(problem_limits.time, problem_limits.space)]
          IN  IF Falsy(report_limits.time) \/ Falsy(report_limits.space)
              THEN /\ response' = FAIL /\ pc' = "returned"
                   /\ all_limits' = step1
                   /\ reasoning' = Reasoning("report_limits", <<>>, NoLimits)
              ELSE IF _extract_prompt_section(document.body) = <<EmptyLine>>
              THEN /\ response' = FAIL /\ pc' = "returned"
                   /\ all_limits' = step1
                   /\ reasoning' = Reasoning("problem_statement", <<>>, NoLimits)
              ELSE IF \/ problem_limits.state = "None"
                      \/ Falsy(problem_limits.time) \/ Falsy(problem_limits.space)
              THEN /\ response' = FAIL /\ pc' = "returned"
                   /\ all_limits' = step1
                   /\ reasoning' = Reasoning("problem_limits", <<>>, NoLimits)
              ELSE IF document.url = "none"
              THEN /\ response' = FAIL /\ pc' = "returned"
                   /\ all_limits' = step3
                   /\ reasoning' = Reasoning("github_url", <<>>, NoLimits)
              ELSE /\ pc' = "mkdtemp"
                   /\ all_limits' = step3
                   /\ UNCHANGED <<response, reasoning>>
    /\ UNCHANGED <<fn, document, results, temp_dir, dir_exists, repo, overall_md_path,
                   attempts, clone_success, raised, ran, results_map>>
    /\ UNCHANGED <<caught, stale, exit_code>>
    /\ UNCHANGED removed
    /\ UNCHANGED cmpVars
    /\ UNCHANGED callVars
    /\ UNCHANGED extVars

\* Step 5, after _clone_repository returned
L_AfterClone ==
    /\ fn = "limits" /\ pc = "clone_ret"
    /\ IF clone_success # "true"
       THEN /\ response' = FAIL /\ pc' = "finally"
            /\ reasoning' = Reasoning("clone", <<>>, NoLimits)
       ELSE /\ pc' = "l_body"
            /\ UNCHANGED <<response, reasoning>>
    /\ UNCHANGED <<fn, document, results, temp_dir, dir_exists, repo, overall_md_path,
                   attempts, clone_success, raised, ran, results_map>>
    /\ UNCHANGED <<caught, stale, exit_code, all_limits>>
    /\ UNCHANGED removed
    /\ UNCHANGED cmpVars
    /\ UNCHANGED callVars
    /\ UNCHANGED extVars

\* requirements.json, metadata.json and Step 6, the comparison of the four
\* sources
L_Body ==
    /\ fn = "limits" /\ pc = "l_body"
    /\ LET requirements == repo.requirements
           metadata == repo.metadata
           limits == [all_limits EXCEPT
                         !.requirements = LimitSet(requirements.time, requirements.space),
                         !.metadata = LimitSet(metadata.time, metadata.space)]
           time_values == <<limits.report.time, limits.problem_statement.time,
                            limits.requirements.time, limits.metadata.time>>
           space_values == <<limits.report.space, limits.problem_statement.space,
                             limits.requirements.space, limits.metadata.space>>
           inconsistencies ==
               (IF PySetLen(time_values) > 1 THEN <<"time">> ELSE <<>>)
               \o (IF PySetLen(space_values) > 1 THEN <<"space">> ELSE <<>>)
       IN  IF requirements.state = "missing"
           THEN /\ response' = FAIL /\ pc' = "finally"
                /\ reasoning' = Reasoning("requirements_not_found", <<>>, NoLimits)
                /\ UNCHANGED <<raised, all_limits>>
           ELSE IF requirements.state = "malformed"
           THEN /\ raised' = "json" /\ pc' = "except"
                /\ UNCHANGED <<response, reasoning, all_limits>>
           ELSE IF metadata.state = "missing"
           THEN /\ response' = FAIL /\ pc' = "finally"
                /\ reasoning' = Reasoning("metadata_not_found", <<>>, NoLimits)
                /\ UNCHANGED <<raised, all_limits>>
           ELSE IF metadata.state = "malformed"
           THEN /\ raised' = "json" /\ pc' = "except"
                /\ UNCHANGED <<response, reasoning, all_limits>>
           ELSE IF inconsistencies # <<>>
           THEN /\ response' = FAIL /\ pc' = "finally"
                /\ all_limits' = limits
                /\ reasoning' = Reasoning("inconsistent", inconsistencies, limits)
                /\ UNCHANGED raised
           ELSE /\ response' = PASS /\ pc' = "finally"
                /\ all_limits' = limits
                /\ reasoning' = Reasoning("consistent", <<>>, NoLimits)
                /\ UNCHANGED raised
    /\ UNCHANGED <<fn, document, results, temp_dir, dir_exists, repo, overall_md_path,
                   attempts, clone_success, ran, results_map>>
    /\ UNCHANGED <<caught, stale, exit_code>>
    /\ UNCHANGED removed
    /\ UNCHANGED cmpVars
    /\ UNCHANGED callVars
    /\ UNCHANGED extVars

\* the except clauses of validate_github_requirements and of
\* LimitsConsistencyReviewer.review: return a FAIL response
R_Except ==
    /\ fn \in {"simple", "limits"} /\ pc = "except"
    /\ response' = FAIL
    /\ reasoning' = IF fn = "limits"
                    THEN Reasoning(IF raised = "json" THEN "json_error" ELSE "error",
                                   <<>>, NoLimits)
                    ELSE reasoning
    /\ pc' = "finally"
    /\ UNCHANGED <<fn, document, results, temp_dir, dir_exists, repo, overall_md_path,
                   attempts, clone_success, raised, ran, results_map>>
    /\ UNCHANGED <<caught, stale, exit_code, all_limits>>
    /\ UNCHANGED removed
    /\ UNCHANGED cmpVars
    /\ UNCHANGED callVars
    /\ UNCHANGED extVars

----------------------------------------------------------------------------
(* RepositoryCache.get_or_clone_repository; its _clone_repository follows    *)
(* the steps of the validator's, and returns repo_dir for True and None for  *)
(* False                                                                     *)

\* the url argument: the call does not read the document
CacheUrls == {[url |-> "valid", body |-> <<EmptyLine>>]}

\* variant that goes on to clone when the existing directory cannot be removed
G_RemoveExisting_IgnoreError ==
    /\ fn = "cache" /\ pc = "start"
    /\ \/ /\ dir_exists
          /\ dir_exists' = FALSE
          /\ stale' = FALSE
          /\ removed' = TRUE
          /\ pc' = "clone_rm"
          /\ UNCHANGED <<response, raised>>
       \/ /\ dir_exists
          /\ raised' = "rmtree"
          /\ pc' = "clone_rm"
          /\ UNCHANGED <<response, dir_exists, stale, removed>>
       \/ /\ ~dir_exists
          /\ pc' = "clone_rm"
          /\ UNCHANGED <<response, raised, dir_exists, stale, removed>>
    /\ UNCHANGED <<fn, document, results, temp_dir, repo, overall_md_path,
                   attempts, clone_success, ran, results_map>>
    /\ UNCHANGED <<caught, exit_code, all_limits, reasoning>>
    /\ UNCHANGED cmpVars
    /\ UNCHANGED callVars
    /\ UNCHANGED extVars

\* if os.path.exists(repo_dir): try: shutil.rmtree(repo_dir)
\*                              except Exception: return None
G_RemoveExisting ==
    /\ fn = "cache" /\ pc = "start"
    /\ \/ /\ dir_exists
          /\ dir_exists' = FALSE
          /\ stale' = FALSE
          /\ removed' = TRUE
          /\ pc' = "clone_rm"
          /\ UNCHANGED <<response, raised>>
       \/ /\ dir_exists                  \* rmtree raises
          /\ raised' = "rmtree"
          /\ response' = "None"
          /\ pc' = "returned"
          /\ UNCHANGED <<dir_exists, stale, removed>>
       \/ /\ ~dir_exists
          /\ pc' = "clone_rm"
          /\ UNCHANGED <<response, raised, dir_exists, stale, removed>>
    /\ UNCHANGED <<fn, document, results, temp_dir, repo, overall_md_path,
                   attempts, clone_success, ran, results_map>>
    /\ UNCHANGED <<caught, exit_code, all_limits, reasoning>>
    /\ UNCHANGED cmpVars
    /\ UNCHANGED callVars
    /\ UNCHANGED extVars

\* return self._clone_repository(url, repo_dir)
G_AfterClone ==
    /\ fn = "cache" /\ pc = "clone_ret"
    /\ response' = IF clone_success = "true" THEN "repo_dir" ELSE "None"
    /\ pc' = "returned"
    /\ UNCHANGED <<fn, document, results, temp_dir, dir_exists, repo, overall_md_path,
                   attempts, clone_success, raised, ran, results_map>>
    /\ UNCHANGED <<caught, stale, exit_code>>
    /\ UNCHANGED <<all_limits, reasoning, removed>>
    /\ UNCHANGED cmpVars
    /\ UNCHANGED callVars
    /\ UNCHANGED extVars

----------------------------------------------------------------------------
(* RepositoryCache.get_or_clone_repository called by several validation    *)
(* runs at once. The runs are separate callers (threads or processes) that *)
(* share nothing but the directory cache_dir; the code takes no lock, so   *)
(* every file-system call of one caller may be followed by a call of the   *)
(* other. An url is [owner, repo, suffix]; the entry of a repository name  *)
(* in cache_dir is [exists, of, complete, by]: the url it is a checkout    *)
(* of, whether git finished writing it, and the caller whose git wrote it. *)

Callers == {1, 2}

NoOwner == "none"

CacheUrl(owner, repo_name, suffix) ==
    [owner |-> owner, repo |-> repo_name, suffix |-> suffix]

\* two owners of a repository with one name, and a repository apart
ConcurrentUrls ==
    {CacheUrl("alice", "task", ""), CacheUrl("bob", "task", ".git"),
     CacheUrl("alice", "other", "/")}

RepoNames == {u.repo : u \in ConcurrentUrls}

NoUrl == CacheUrl(NoOwner, "none", "")

Absent == [exists |-> FALSE, of |-> NoUrl, complete |-> FALSE, by |-> 0]

Partial(url, c) == [exists |-> TRUE, of |-> url, complete |-> FALSE, by |-> c]

Checkout(url, c) == [exists |-> TRUE, of |-> url, complete |-> TRUE, by |-> c]

\* url.rstrip('/'), the '.git' ending cut off, then group 2 of
\* github\.com[:/]([^/]+)/([^/]+?)(?:\.git)?$ : the last path segment
_get_repo_name(url) == url.repo

\* repo_dir = os.path.join(self.cache_dir, repo_name)
repo_dir(c) == _get_repo_name(callers[c].url)

Caller(url, at, ret) == [url |-> url, pc |-> at, ret |-> ret]

At(c, at) == callers[c].pc = at

Goto(c, at) == callers' = [callers EXCEPT ![c].pc = at]

Return(c, ret, at) == callers' = [callers EXCEPT ![c].pc = at, ![c].ret = ret]

\* if os.path.exists(repo_dir): try: shutil.rmtree(repo_dir)
\*                              except Exception: return None
Cache_RemoveExisting ==
    \E c \in Callers :
        /\ At(c, "start")
        /\ IF cache[repo_dir(c)].exists
           THEN \/ /\ cache' = [cache EXCEPT ![repo_dir(c)] = Absent]
                   /\ Goto(c, "clone")
                \/ /\ Return(c, "None", "returned")   \* rmtree raises
                   /\ UNCHANGED cache
           ELSE /\ Goto(c, "clone")
                /\ UNCHANGED cache
        /\ UNCHANGED <<cmpVars, runVars, callVars, reviewVars>>

\* _clone_repository: if os.path.exists(repo_dir): shutil.rmtree(repo_dir)
\* (an exception of rmtree is caught at 137 and None is returned)
Cache_EnsureAbsent ==
    \E c \in Callers :
        /\ At(c, "clone")
        /\ IF cache[repo_dir(c)].exists
           THEN \/ /\ cache' = [cache EXCEPT ![repo_dir(c)] = Absent]
                   /\ Goto(c, "ssh")
                \/ /\ Return(c, "None", "returned")
                   /\ UNCHANGED cache
           ELSE /\ Goto(c, "ssh")
                /\ UNCHANGED cache
        /\ UNCHANGED <<cmpVars, runVars, callVars, reviewVars>>

\* subprocess.run(['git', 'clone', ...]) starts: git refuses a target that
\* exists with content (non-zero return code, the target left as it is),
\* otherwise it creates the target and begins to write the checkout
Cache_GitStart ==
    \E c \in Callers :
        /\ \/ At(c, "ssh") \/ At(c, "https")
        /\ IF cache[repo_dir(c)].exists
           THEN /\ IF At(c, "ssh")
                   THEN Goto(c, "cleanup")
                   ELSE Return(c, "None", "returned")
                /\ UNCHANGED cache
           ELSE /\ cache' = [cache EXCEPT ![repo_dir(c)] = Partial(callers[c].url, c)]
                /\ Goto(c, IF At(c, "ssh") THEN "ssh_running" ELSE "https_running")
        /\ UNCHANGED <<cmpVars, runVars, callVars, reviewVars>>

\* subprocess.run returns or raises: return code 0 with the checkout
\* written, a non-zero return code with the target removed by git, or
\* TimeoutExpired with the target left half written. A git whose target
\* was removed or replaced under it by another caller ends with a non-zero
\* return code.
Cache_GitEnd ==
    \E c \in Callers :
        /\ \/ At(c, "ssh_running") \/ At(c, "https_running")
        /\ IF cache[repo_dir(c)] = Partial(callers[c].url, c)
           THEN \/ /\ cache' = [cache EXCEPT ![repo_dir(c)] = Checkout(callers[c].url, c)]
                   /\ Return(c, "repo_dir", "using")
                \/ /\ cache' = [cache EXCEPT ![repo_dir(c)] = Absent]
                   /\ IF At(c, "ssh_running")
                      THEN Goto(c, "cleanup")
                      ELSE Return(c, "None", "returned")
                \/ /\ Return(c, "None", "returned")    \* TimeoutExpired
                   /\ UNCHANGED cache
           ELSE /\ IF At(c, "ssh_running")
                   THEN Goto(c, "cleanup")
                   ELSE Return(c, "None", "returned")
                /\ UNCHANGED cache
        /\ UNCHANGED <<cmpVars, runVars, callVars, reviewVars>>

\* Clean up failed attempt: if os.path.exists(repo_dir): shutil.rmtree(repo_dir)
Cache_Cleanup ==
    \E c \in Callers :
        /\ At(c, "cleanup")
        /\ IF cache[repo_dir(c)].exists
           THEN \/ /\ cache' = [cache EXCEPT ![repo_dir(c)] = Absent]
                   /\ Goto(c, "https")
                \/ /\ Return(c, "None", "returned")
                   /\ UNCHANGED cache
           ELSE /\ Goto(c, "https")
                /\ UNCHANGED cache
        /\ UNCHANGED <<cmpVars, runVars, callVars, reviewVars>>

\* the validation run that was given the directory reads it, then ends
Cache_RunEnds ==
    \E c \in Callers :
        /\ At(c, "using")
        /\ Goto(c, "returned")
        /\ UNCHANGED cache
        /\ UNCHANGED <<cmpVars, runVars, callVars, reviewVars>>

NoCallers == [c \in Callers |-> Caller(NoUrl, "idle", "none")]

NoCache == [n \in RepoNames |-> Absent]

CacheIdle ==
    /\ cache = NoCache
    /\ callers = NoCallers

----------------------------------------------------------------------------
(* DocumentReviewSystem.run_reviews without --github-only and              *)
(* --single-review: the resume point, the AI reviews run by the threads of *)
(* a ThreadPoolExecutor, and the GitHub validation at the end. The calling *)
(* thread is thread 0, the worker of the review at position i is thread i. *)

NumReviews == 3

\* the first keys of self.reviewers, in the order of the dictionary
AllAiReviews ==
    <<UNIQUE_SOLUTION, "Time Complexity Authenticity Check", "Style Guide Compliance",
      "Naming Conventions", "Documentation Standards">>

ai_reviews == SubSeq(AllAiReviews, 1, NumReviews)

Positions == 1..NumReviews

MainThread == 0

NoThread == -1

SKIPPED == "SKIPPED - Resumed from later point"

ReviewResponse(result, text) == [result |-> result, reasoning |-> text]

NoResponse == ReviewResponse("none", "none")

\* a worker: where it is, what its call returns, how often it ran the review
Future(at, ret, runs) == [pc |-> at, ret |-> ret, runs |-> runs]

NoResults == [n \in {} |-> NoResponse]

\* results[name] = response
Store(map, name, resp) ==
    [n \in (DOMAIN map) \cup {name} |-> IF n = name THEN resp ELSE map[n]]

\* a worker thread exists that has not returned yet
WorkersRunning == \E i \in Positions : futures[i].pc \in {"submitted", "print", "locked"}

\* self.detailed_output.append(message) by a thread: the entry tells
\* whether the thread held the lock and whether workers were running
Entry_(thread, held) == [by |-> thread, held |-> held, during |-> WorkersRunning]

Logged(thread) == Entry_(thread, output_lock = thread)

\* start_index after lines 449-456
StartIndex(resume_from) ==
    IF resume_from < 1 THEN 1
    ELSE IF resume_from > Len(ai_reviews) THEN 1
    ELSE resume_from

\* the placeholders of lines 459-464 for range(1, start)
RECURSIVE Skipped(_, _)
Skipped(map, i) ==
    IF i < 1 THEN map
    ELSE Store(Skipped(map, i - 1), ai_reviews[i], ReviewResponse(PASS, SKIPPED))

\* variant that keeps a resume point beyond the last review
RR_Resume_KeepBeyond ==
    /\ rr_pc = "start"
    /\ LET start == IF rr_args.resume_from < 1 THEN 1 ELSE rr_args.resume_from
       IN  /\ start_index' = start
           /\ results_dict' = Skipped(results_dict, Min(start - 1, Len(ai_reviews)))
           /\ rr_pc' = IF start <= Len(ai_reviews) THEN "submit" ELSE "github"
    /\ detailed_output' =
           IF rr_args.resume_from > Len(ai_reviews)
           THEN Append(detailed_output, Entry_(MainThread, FALSE))
           ELSE detailed_output
    /\ UNCHANGED <<rr_args, futures, collected, output_lock, github_runs>>
    /\ UNCHANGED <<cmpVars, runVars, callVars, cacheVars>>

\* lines 449-467: start_index, the warning appended without the lock when
\* the resume point is beyond the reviews, and the skipped placeholders
RR_Resume ==
    /\ rr_pc = "start"
    /\ LET start == StartIndex(rr_args.resume_from)
       IN  /\ start_index' = start
           /\ results_dict' = Skipped(results_dict, start - 1)
           /\ rr_pc' = IF start <= Len(ai_reviews) THEN "submit" ELSE "github"
    /\ detailed_output' =
           IF rr_args.resume_from > Len(ai_reviews)
           THEN Append(detailed_output, Entry_(MainThread, FALSE))
           ELSE detailed_output
    /\ UNCHANGED <<rr_args, futures, collected, output_lock, github_runs>>
    /\ UNCHANGED <<cmpVars, runVars, callVars, cacheVars>>

\* lines 469-489: the starting messages through _progress_print (the lock
\* is taken and released for each, no other thread exists yet), then one
\* future per review of ai_reviews[start_index-1:]
RR_Submit ==
    /\ rr_pc = "submit"
    /\ output_lock = NoThread
    /\ detailed_output' = Append(detailed_output, Entry_(MainThread, TRUE))
    /\ futures' = [i \in Positions |->
                      IF i >= start_index THEN Future("submitted", NoResponse, 0)
                      ELSE futures[i]]
    /\ rr_pc' = "collect"
    /\ UNCHANGED <<rr_args, start_index, results_dict, collected, output_lock, github_runs>>
    /\ UNCHANGED <<cmpVars, runVars, callVars, cacheVars>>

\* _run_single_ai_review_quiet: result = reviewer.review(document), or the
\* FAIL response of the except clause when the review raises
Worker_Review ==
    \E i \in Positions :
        /\ futures[i].pc = "submitted"
        /\ \/ \E result \in {PASS, FAIL} :
                 futures' = [futures EXCEPT ![i] =
                     Future("print", ReviewResponse(result, "reviewed"), futures[i].runs + 1)]
           \/ futures' = [futures EXCEPT ![i] =
                  Future("print", ReviewResponse(FAIL, "Review failed with error"),
                         futures[i].runs + 1)]
        /\ UNCHANGED <<rr_args, rr_pc, start_index, results_dict, collected,
                       output_lock, detailed_output, github_runs>>
        /\ UNCHANGED <<cmpVars, runVars, callVars, cacheVars>>

\* variant of _progress_print that does not wait for the lock
Worker_Acquire_NoWait ==
    \E i \in Positions :
        /\ futures[i].pc = "print"
        /\ output_lock' = IF output_lock = NoThread THEN i ELSE output_lock
        /\ futures' = [futures EXCEPT ![i].pc = "locked"]
        /\ UNCHANGED <<rr_args, rr_pc, start_index, results_dict, collected,
                       detailed_output, github_runs>>
        /\ UNCHANGED <<cmpVars, runVars, callVars, cacheVars>>

\* _progress_print: with self.output_lock  (the worker waits until the
\* lock is free)
Worker_Acquire ==
    \E i \in Positions :
        /\ futures[i].pc = "print"
        /\ output_lock = NoThread
        /\ output_lock' = i
        /\ futures' = [futures EXCEPT ![i].pc = "locked"]
        /\ UNCHANGED <<rr_args, rr_pc, start_index, results_dict, collected,
                       detailed_output, github_runs>>
        /\ UNCHANGED <<cmpVars, runVars, callVars, cacheVars>>

\* print(message); self.detailed_output.append(message); the lock is
\* released at the end of the with block and the worker returns
Worker_Append ==
    \E i \in Positions :
        /\ futures[i].pc = "locked"
        /\ detailed_output' = Append(detailed_output, Logged(i))
        /\ output_lock' = IF output_lock = i THEN NoThread ELSE output_lock
        /\ futures' = [futures EXCEPT ![i].pc = "done"]
        /\ UNCHANGED <<rr_args, rr_pc, start_index, results_dict, collected, github_runs>>
        /\ UNCHANGED <<cmpVars, runVars, callVars, cacheVars>>

\* for future in as_completed(future_to_review):
\*     review_name, result = future.result(); results[review_name] = result
RR_Collect ==
    /\ rr_pc = "collect"
    /\ \E i \in Positions \ collected :
          /\ futures[i].pc = "done"
          /\ results_dict' = Store(results_dict, ai_reviews[i], futures[i].ret)
          /\ collected' = collected \cup {i}
    /\ UNCHANGED <<rr_args, rr_pc, start_index, futures, output_lock,
                   detailed_output, github_runs>>
    /\ UNCHANGED <<cmpVars, runVars, callVars, cacheVars>>

\* lines 496-504: every future was read and the pool is shut down; the
\* summary goes through _progress_print
RR_Summary ==
    /\ rr_pc = "collect"
    /\ collected = {i \in Positions : i >= start_index}
    /\ output_lock = NoThread
    /\ detailed_output' = Append(detailed_output, Entry_(MainThread, TRUE))
    /\ rr_pc' = "github"
    /\ UNCHANGED <<rr_args, start_index, results_dict, futures, collected,
                   output_lock, github_runs>>
    /\ UNCHANGED <<cmpVars, runVars, callVars, cacheVars>>

\* the outcomes of the GitHub tasks a run of the validator returns here
GithubTaskLists ==
    {<<Task(SETUP, PASS, "setup_completed"), Task(HUNYUAN, PASS, "passed")>>,
     <<Task(SETUP, FAIL, "failed")>>}

RECURSIVE StoreTasks(_, _)
StoreTasks(map, github_tasks) ==
    IF github_tasks = <<>> THEN map
    ELSE StoreTasks(Store(map, Head(github_tasks).name,
                          ReviewResponse(Head(github_tasks).result, Head(github_tasks).reasoning)),
                    Tail(github_tasks))

\* lines 506-534: unless skip_github, the validator is called and its
\* tasks are stored; return results
RR_GitHub ==
    /\ rr_pc = "github"
    /\ IF rr_args.skip_github
       THEN UNCHANGED <<results_dict, github_runs, detailed_output>>
       ELSE /\ \E github_tasks \in GithubTaskLists :
                  results_dict' = StoreTasks(results_dict, github_tasks)
            /\ github_runs' = github_runs + 1
            /\ detailed_output' = Append(detailed_output, Entry_(MainThread, TRUE))
    /\ rr_pc' = "returned"
    /\ UNCHANGED <<rr_args, start_index, futures, collected, output_lock>>
    /\ UNCHANGED <<cmpVars, runVars, callVars, cacheVars>>

NoFutures == [i \in Positions |-> Future("none", NoResponse, 0)]

ReviewsIdleOn(args, at) ==
    /\ rr_args = args
    /\ rr_pc = at
    /\ start_index = 0
    /\ results_dict = NoResults
    /\ futures = NoFutures
    /\ collected = {}
    /\ output_lock = NoThread
    /\ detailed_output = <<>>
    /\ github_runs = 0

ReviewsIdle == ReviewsIdleOn([resume_from |-> 0, skip_github |-> FALSE], "idle")

ExtIdle == CacheIdle /\ ReviewsIdle

----------------------------------------------------------------------------
(* The choice of the overall.md file: _find_overall_md_files and step 1d   *)
(* of validate_github_requirements_detailed. A walk is the list of         *)
(* [root, file] entries in the order os.walk yields them, which depends on *)
(* the order in which the file system lists a directory.                   *)

OVERALL_MD == <<"o", "v", "e", "r", "a", "l", "l", ".", "m", "d">>

\* the characters of the paths in the order of their code points
CodePoints == <<".", "/">> \o UpperCase \o LowerCase

Ord(c) == CHOOSE n \in 1..Len(CodePoints) : CodePoints[n] = c

\* str.lower()
Lower(text) == [n \in 1..Len(text) |-> Fold(text[n], TRUE)]

\* a < b for two strings: at the first place where they differ the
\* character of a has the smaller code point, or a is a proper prefix of b
RECURSIVE StrLess(_, _)
StrLess(a, b) ==
    IF b = <<>> THEN FALSE
    ELSE IF a = <<>> THEN TRUE
    ELSE IF Head(a) # Head(b) THEN Ord(Head(a)) < Ord(Head(b))
    ELSE StrLess(Tail(a), Tail(b))

\* os.path.join(root, file)
PathJoin(root, file) == root \o <<"/">> \o file

\* the paths of the entries whose file name is overall.md in any case, in
\* the order of the walk
_find_overall_md_files(walk) ==
    LET found == SelectSeq(walk, LAMBDA e : Lower(e.file) = OVERALL_MD)
    IN  [n \in 1..Len(found) |-> PathJoin(found[n].root, found[n].file)]

\* list.sort(): each item is put before the first greater item of the
\* sorted rest
RECURSIVE Insert(_, _)
Insert(item, sorted) ==
    IF sorted = <<>> THEN <<item>>
    ELSE IF StrLess(item, Head(sorted)) THEN <<item>> \o sorted
    ELSE <<Head(sorted)>> \o Insert(item, Tail(sorted))

RECURSIVE Sort(_)
Sort(files) ==
    IF files = <<>> THEN <<>>
    ELSE Insert(files[Len(files)], Sort(SubSeq(files, 1, Len(files) - 1)))

\* variant that takes the last file found, without sorting
SelectOverall_LastFound(overall_files) ==
    IF Len(overall_files) = 0 THEN None
    ELSE IF Len(overall_files) > 1
    THEN overall_files[Len(overall_files)]
    ELSE overall_files[1]

\* overall_md_path after step 1d: None, overall_files[-1] of the sorted
\* list, or overall_files[0]
SelectOverall(overall_files) ==
    IF Len(overall_files) = 0 THEN None
    ELSE IF Len(overall_files) > 1
    THEN Sort(overall_files)[Len(overall_files)]
    ELSE overall_files[1]

Call_find_overall_md_files ==
    /\ cmp_pc = "select"
    /\ call_ret' = [overall_files |-> _find_overall_md_files(call_args),
                    overall_md_path |-> SelectOverall(_find_overall_md_files(call_args))]
    /\ cmp_pc' = "select_returned"
    /\ UNCHANGED <<content1, content2, allowed_diffs, cmp_ok, cmp_msg, violations>>
    /\ UNCHANGED call_args
    /\ UNCHANGED runVars
    /\ UNCHANGED extVars

\* the checkout directory and the files a walk of it can meet
TEMP_DIR == <<"t">>

Entry(root, file) == [root |-> root, file |-> file]

WalkEntries ==
    {Entry(TEMP_DIR, OVERALL_MD),
     Entry(TEMP_DIR, <<"O", "v", "e", "r", "a", "l", "l", ".", "m", "d">>),
     Entry(TEMP_DIR \o <<"/", "a">>, <<"O", "V", "E", "R", "A", "L", "L", ".", "M", "D">>),
     Entry(TEMP_DIR \o <<"/", "a">>, OVERALL_MD),
     Entry(TEMP_DIR \o <<"/", "Z">>, OVERALL_MD),
     Entry(TEMP_DIR \o <<"/", "b">>, <<"o", "v", "e", "r", "a", "l", "l", ".", "m">>)}

MaxWalk == 3

\* the walks: up to MaxWalk different entries in any order
Walks ==
    UNION {{w \in [1..n -> WalkEntries] : \A i \in 1..n, j \in 1..n : w[i] = w[j] => i = j} :
              n \in 0..MaxWalk}

----------------------------------------------------------------------------
(* _validate_limits_vs_usage: the memory limit stated in the prompt region *)
(* against the Max Mem (MB) column of the overall.md tables. A limit is    *)
(* counted in tenths of a MB and a required limit in hundredths; the texts *)
(* of the inputs are numbers a double holds exactly.                       *)

MEMORY_LIMIT == <<"m", "e", "m", "o", "r", "y", " ", "l", "i", "m", "i", "t", ":">>
MB == <<"m", "b">>
STARS == <<"*", "*">>
PIPE == <<"|">>
SEPARATOR_START == <<"|", "-", "-", "-", "|">>
MODEL == <<"M", "o", "d", "e", "l">>
MAX_MEM_HEADER == <<"M", "a", "x", " ", "M", "e", "m", " ", "(", "M", "B", ")">>
NAN_TEXT == <<"n", "a", "n">>
INF_TEXT == <<"i", "n", "f">>
INFINITY_TEXT == <<"i", "n", "f", "i", "n", "i", "t", "y">>

DigitChars == {"0", "1", "2", "3", "4", "5", "6", "7", "8", "9"}

\* the texts  \d+(?:\.\d+)?  with at most one digit after the point
IsNumberText(text) ==
    LET parts == Split(text, ".")
    IN  /\ Len(parts) \in {1, 2}
        /\ parts[1] # <<>>
        /\ \A n \in 1..Len(parts[1]) : parts[1][n] \in DigitChars
        /\ Len(parts) = 2 => (Len(parts[2]) = 1 /\ parts[2][1] \in DigitChars)

\* the group of  Memory Limit:\s*\*\*(\d+(?:\.\d+)?)\s*MB\*\*  matched with
\* re.IGNORECASE at offset p of a line, or None without a match there
MemoryLimitAt(line, p) ==
    LET after == LStrip(Slice(line, p + Len(MEMORY_LIMIT), Len(line)))
        close == Find(after, STARS, Len(STARS))
        inner == Slice(after, Len(STARS), close)
        number == RStrip(Slice(inner, 0, Len(inner) - Len(MB)))
    IN  IF ~OccursAt(Lower(line), MEMORY_LIMIT, p) THEN None
        ELSE IF ~OccursAt(after, STARS, 0) THEN None
        ELSE IF close = -1 THEN None
        ELSE IF Len(inner) < Len(MB) THEN None
        ELSE IF Lower(Slice(inner, Len(inner) - Len(MB), Len(inner))) # MB THEN None
        ELSE IF ~IsNumberText(number) THEN None
        ELSE number

\* memory_limit_match.group(1) of the search in the lines of the prompt
\* section: the first match of the first line that has one, or None
RECURSIVE memory_limit_match(_)
memory_limit_match(prompt_section) ==
    IF prompt_section = <<>> THEN None
    ELSE LET line == Head(prompt_section)
             places == {p \in 0..Len(line) : MemoryLimitAt(line, p) # None}
         IN  IF places = {} THEN memory_limit_match(Tail(prompt_section))
             ELSE MemoryLimitAt(line, CHOOSE p \in places : \A o \in places : p <= o)

\* the values float() returns beside the finite ones, and its ValueError
NaN == [kind |-> "nan", tenths |-> 0]
Infinity == [kind |-> "inf", tenths |-> 0]
ValueError == [kind |-> "ValueError", tenths |-> 0]

\* float(max_mem_str): the text is stripped and read in any case; 'nan' and
\* 'inf' are numbers for float(), a text that is no number raises ValueError
PyFloatOf(max_mem_str) ==
    LET text == Lower(Strip(max_mem_str))
    IN  IF text = NAN_TEXT THEN NaN
        ELSE IF text \in {INF_TEXT, INFINITY_TEXT} THEN Infinity
        ELSE IF IsNumberText(text) THEN FloatOfText(text)
        ELSE ValueError

\* a < b for two floats: every comparison with nan is false
PyLess(a, b) ==
    IF a.kind = "nan" \/ b.kind = "nan" THEN FALSE
    ELSE IF a.kind = "inf" THEN FALSE
    ELSE IF b.kind = "inf" THEN TRUE
    ELSE a.tenths < b.tenths

\* max(max_mems): the first value is kept until a later one is greater
RECURSIVE MaxFrom(_, _)
MaxFrom(best, rest) ==
    IF rest = <<>> THEN best
    ELSE MaxFrom(IF PyLess(best, Head(rest)) THEN Head(rest) ELSE best, Tail(rest))

PyMax(max_mems) == MaxFrom(Head(max_mems), Tail(max_mems))

MinParts == 7
MaxMemColumn == 6

\* the rows without a pipe, the separator rows and the rows that hold
\* 'Run File' or 'Model' are skipped
SkippedLine(line) ==
    \/ ~In(PIPE, line)
    \/ OccursAt(Strip(line), SEPARATOR_START, 0)
    \/ In(RUN_FILE, line)
    \/ In(MODEL, line)

\* max_mems: the seventh part of every other row of seven parts at least,
\* when float() reads it
RECURSIVE MaxMems(_)
MaxMems(lines) ==
    IF lines = <<>> THEN <<>>
    ELSE LET line == Head(lines)
             parts == Parts(line)
             max_mem_str == parts[MaxMemColumn + 1]
         IN  IF SkippedLine(line) THEN MaxMems(Tail(lines))
             ELSE IF Len(parts) < MinParts THEN MaxMems(Tail(lines))
             ELSE IF max_mem_str = MAX_MEM_HEADER THEN MaxMems(Tail(lines))
             ELSE IF PyFloatOf(max_mem_str) = ValueError THEN MaxMems(Tail(lines))
             ELSE <<PyFloatOf(max_mem_str)>> \o MaxMems(Tail(lines))

\* 1.5 in tenths
RequiredFactor == 15

\* required_mem_limit = absolute_max_mem * 1.5, in hundredths
RequiredLimit(absolute_max_mem) ==
    [kind |-> absolute_max_mem.kind, hundredths |-> absolute_max_mem.tenths * RequiredFactor]

\* memory_limit < required_mem_limit
LimitLess(memory_limit, required_mem_limit) ==
    IF required_mem_limit.kind = "nan" THEN FALSE
    ELSE IF required_mem_limit.kind = "inf" THEN TRUE
    ELSE memory_limit.tenths * 10 < required_mem_limit.hundredths

Verdict(valid, msg) == [valid |-> valid, msg |-> msg]

_validate_limits_vs_usage(overall_md, body) ==
    LET prompt_section == _extract_prompt_section(body)
        group == memory_limit_match(prompt_section)
        memory_limit == FloatOfText(group)
        max_mems == MaxMems(overall_md.lines)
        required_mem_limit == RequiredLimit(PyMax(max_mems))
    IN  IF group = None THEN Verdict(FALSE, "Could not extract memory limit")
        ELSE IF ~overall_md.readable THEN Verdict(FALSE, "Error validating limits vs usage")
        ELSE IF max_mems = <<>> THEN Verdict(FALSE, "Could not extract max memory values")
        ELSE IF LimitLess(memory_limit, required_mem_limit)
             THEN Verdict(FALSE, "Memory limit is less than 1.5x max usage")
        ELSE Verdict(TRUE, "Memory limit is sufficient")

Call_validate_limits_vs_usage ==
    /\ cmp_pc = "limits"
    /\ call_ret' = _validate_limits_vs_usage(call_args.overall_md, call_args.document)
    /\ cmp_pc' = "limits_returned"
    /\ UNCHANGED <<content1, content2, allowed_diffs, cmp_ok, cmp_msg, violations>>
    /\ UNCHANGED call_args
    /\ UNCHANGED runVars
    /\ UNCHANGED extVars

\* the documents: the limit stated in the prompt region, in small letters,
\* twice, after the region only, without a region, and not stated
MemoryLine(number) == <<"M", "e", "m", "o", "r", "y", " ", "L", "i", "m", "i", "t", ":",
                        " ", "*", "*">> \o number \o <<" ", "M", "B", "*", "*">>
MEMORY_LINE_SMALL == <<"m", "e", "m", "o", "r", "y", " ", "l", "i", "m", "i", "t", ":",
                       " ", " ", "*", "*", "4", "m", "b", "*", "*">>
TIME_LINE == <<"T", "i", "m", "e", " ", "L", "i", "m", "i", "t", ":", " ", "*", "*", "1",
               " ", "s", "e", "c", "o", "n", "d", "s", "*", "*">>

LimitDocuments ==
    { <<PROMPT, TIME_LINE, MemoryLine(<<"3">>), ASSISTANT>>,
      <<PROMPT, TIME_LINE, MemoryLine(<<"4">>), ASSISTANT>>,
      <<PROMPT, MemoryLine(<<"4", ".", "5">>), ASSISTANT>>,
      <<PROMPT, MEMORY_LINE_SMALL, MemoryLine(<<"3">>), ASSISTANT>>,
      <<PROMPT, TIME_LINE, ASSISTANT, MemoryLine(<<"4">>)>>,
      <<MemoryLine(<<"4">>)>>,
      <<PROMPT, TIME_LINE, ASSISTANT>> }

\* the rows of the overall.md tables: a run with its Max Mem cell, a row of
\* three cells, and the row of a comparison table that names a model
USAGE_HEADER == <<"|", " ", "R", "u", "n", " ", "F", "i", "l", "e", " ", "|", " ", "S",
                  "t", "a", "t", "u", "s", " ", "|", " ", "S", "c", "o", "r", "e", " ",
                  "|", " ", "A", "v", "g", " ", "T", "i", "m", "e", " ", "(", "s", ")",
                  " ", "|", " ", "M", "a", "x", " ", "T", "i", "m", "e", " ", "(", "s",
                  ")", " ", "|", " ", "A", "v", "g", " ", "M", "e", "m", " ", "(", "M",
                  "B", ")", " ", "|", " ", "M", "a", "x", " ", "M", "e", "m", " ", "(",
                  "M", "B", ")", " ", "|", " ", "E", "r", "r", "o", "r", "s", " ", "|">>
USAGE_SEPARATOR == <<"|", "-", "-", "-", "|", "-", "-", "-", "|", "-", "-", "-", "|", "-",
                     "-", "-", "|", "-", "-", "-", "|", "-", "-", "-", "|", "-", "-", "-",
                     "|", "-", "-", "-", "|">>
RunRow(max_mem) == <<"|", " ", "a", ".", "c", "p", "p", " ", "|", " ", "P", "A", "S", "S",
                     " ", "|", " ", "9", " ", "|", " ", "0", ".", "1", " ", "|", " ", "0",
                     ".", "2", " ", "|", " ", "1", " ", "|", " ">> \o max_mem \o <<" ",
                     "|", " ", "0", " ", "|">>
SHORT_ROW == <<"|", " ", "a", ".", "c", "p", "p", " ", "|", " ", "3", " ", "|">>
MODEL_ROW == <<"|", " ", "M", "o", "d", "e", "l", " ", "s", "t", "d", " ", "|", " ", "P",
               "A", "S", "S", " ", "|", " ", "9", " ", "|", " ", "0", ".", "1", " ", "|",
               " ", "0", ".", "2", " ", "|", " ", "1", " ", "|", " ", "9", " ", "|", " ",
               "0", " ", "|">>

MaxMemCells ==
    { <<"2">>, <<"3">>, NAN_TEXT, <<"I", "n", "f">>, <<"N", "/", "A">> }

UsageRows == {RunRow(cell) : cell \in MaxMemCells} \cup {SHORT_ROW, MODEL_ROW}

MaxUsageRows == 2

RECURSIVE RowLists(_)
RowLists(n) ==
    IF n = 0 THEN {<<>>}
    ELSE RowLists(n - 1)
         \cup {Append(rows, row) : rows \in {l \in RowLists(n - 1) : Len(l) = n - 1},
                                   row \in UsageRows}

OverallMd(readable, rows) ==
    [readable |-> readable, lines |-> <<USAGE_HEADER, USAGE_SEPARATOR>> \o rows]

LimitCalls ==
    { [document |-> body, overall_md |-> OverallMd(TRUE, rows)] :
          body \in LimitDocuments, rows \in RowLists(MaxUsageRows) }
    \cup { [document |-> body, overall_md |-> OverallMd(FALSE, <<>>)] :
          body \in LimitDocuments }

----------------------------------------------------------------------------
(* The scan for a standalone separator in _validate_overall_md_format, one *)
(* iteration of its  while True  loop at a time. call_args is the content, *)
(* call_ret holds search_start and, once the loop has ended, the offset    *)
(* appended to next_section_positions (-1 when none was).                  *)

NoSeparator == -1

ScanState(search_start, next_separator) ==
    [search_start |-> search_start, next_separator |-> next_separator]

\* line_before of the separator at an offset starts or ends with '|'
IsTableBorder(content, next_separator) ==
    LET line_start == RFindChar(content, "\n", next_separator)
        line_before == Strip(Slice(content, line_start + 1, next_separator))
    IN  \/ StartsWithChar(line_before, "|")
        \/ (line_before # <<>> /\ line_before[Len(line_before)] = "|")

\* variant that searches again from the separator just rejected
NextSearchStart_AtSeparator(next_separator) ==
    next_separator

\* search_start = next_separator + 1
NextSearchStart(next_separator) ==
    next_separator + 1

Scan_Iteration ==
    /\ cmp_pc = "scan"
    /\ LET next_separator == Find(call_args, SEPARATOR, call_ret.search_start)
       IN  IF next_separator = -1
           THEN /\ call_ret' = ScanState(call_ret.search_start, NoSeparator)
                /\ cmp_pc' = "scan_done"
           ELSE IF ~IsTableBorder(call_args, next_separator)
           THEN /\ call_ret' = ScanState(call_ret.search_start, next_separator)
                /\ cmp_pc' = "scan_done"
           ELSE /\ call_ret' = ScanState(NextSearchStart(next_separator), NoSeparator)
                /\ cmp_pc' = "scan"
    /\ UNCHANGED <<content1, content2, allowed_diffs, cmp_ok, cmp_msg, violations>>
    /\ UNCHANGED call_args
    /\ UNCHANGED runVars
    /\ UNCHANGED extVars

\* the contents scanned: the standard header and, under it, any lines of a
\* bordered line, a bare rule and a status line
ScanLines == {BORDERED_LINE, DASHES, STATUS_PASS}

MaxScanLines == 4

RECURSIVE ScanTexts(_)
ScanTexts(n) ==
    IF n = 0 THEN {<<>>}
    ELSE ScanTexts(n - 1)
         \cup {Append(text, line) : text \in {t \in ScanTexts(n - 1) : Len(t) = n - 1},
                                    line \in ScanLines}

ScanContents ==
    {JoinChars(<<STANDARD_HEADER \o <<BACKQUOTE>>>> \o text \o <<EmptyLine>>) :
        text \in ScanTexts(MaxScanLines)}

\* search_start = standard_section_start + 1
ScanStart(content) == HeaderMatchStart(content, STANDARD_HEADER) + 1

----------------------------------------------------------------------------
(* Specifications *)

CallIdle ==
    /\ call_args = "none"
    /\ call_ret = "none"

CompareIdle ==
    /\ content1 = <<EmptyLine>>
    /\ content2 = <<EmptyLine>>
    /\ allowed_diffs = <<>>
    /\ cmp_pc = "idle"
    /\ cmp_ok = FALSE
    /\ cmp_msg = NoMsg
    /\ violations = <<>>

\* existing: the directory of the call exists before it, with older content
RunQuiet(entry, doc, at, existing) ==
    /\ fn = entry
    /\ document = doc
    /\ pc = at
    /\ results = <<>>
    /\ response = "none"
    /\ temp_dir = "None"
    /\ dir_exists = existing
    /\ repo = NoRepo
    /\ overall_md_path = "unset"
    /\ attempts = <<>>
    /\ clone_success = "pending"
    /\ raised = "none"
    /\ ran = <<>>
    /\ results_map = EmptyMap
    /\ caught = "none"
    /\ stale = existing
    /\ exit_code = NoExit
    /\ all_limits = NoLimits
    /\ reasoning = NoReasoning
    /\ removed = FALSE

RunIdleOn(entry, doc, at, existing) ==
    /\ RunQuiet(entry, doc, at, existing)
    /\ ExtIdle

RunIdle(entry, doc, at) == RunIdleOn(entry, doc, at, FALSE)

InitCompare ==
    /\ \E p \in InputPairs : content1 = p[1] /\ content2 = p[2]
    /\ allowed_diffs \in RuleLists
    /\ cmp_pc = "call"
    /\ cmp_ok = FALSE
    /\ cmp_msg = NoMsg
    /\ violations = <<>>
    /\ RunIdle("none", [url |-> "none", body |-> <<EmptyLine>>], "idle")
    /\ CallIdle

NextCompare == Compare

\* the other variables while a pure function is under check
PureIdle(at) ==
    /\ content1 = <<EmptyLine>>
    /\ content2 = <<EmptyLine>>
    /\ allowed_diffs = <<>>
    /\ cmp_pc = at
    /\ cmp_ok = FALSE
    /\ cmp_msg = NoMsg
    /\ violations = <<>>
    /\ RunIdle("none", [url |-> "none", body |-> <<EmptyLine>>], "idle")

InitExtract ==
    /\ call_args \in MarkedDocuments
    /\ call_ret = NoSections
    /\ PureIdle("extract")

NextExtract ==
    \/ Call_extract_content_until_chain01
    \/ Call_extract_content_from_chain01
    \/ Call_extract_prompt_section

SpecExtract == InitExtract /\ [][NextExtract]_vars

InitUrl ==
    /\ call_args \in UrlDocuments
    /\ call_ret = None
    /\ PureIdle("url")

NextUrl == Call_extract_github_url

SpecUrl == InitUrl /\ [][NextUrl]_vars

InitFormat ==
    /\ call_args \in FormatCalls
    /\ call_ret = None
    /\ PureIdle("format")

NextFormat == Call_validate_overall_md_format

SpecFormat == InitFormat /\ [][NextFormat]_vars

InitSelect ==
    /\ call_args \in Walks
    /\ call_ret = None
    /\ PureIdle("select")

NextSelect == Call_find_overall_md_files

SpecSelect == InitSelect /\ [][NextSelect]_vars

InitLimits ==
    /\ call_args \in LimitCalls
    /\ call_ret = None
    /\ PureIdle("limits")

NextLimits == Call_validate_limits_vs_usage

SpecLimits == InitLimits /\ [][NextLimits]_vars

InitScan ==
    /\ call_args \in ScanContents
    /\ call_ret = ScanState(ScanStart(call_args), NoSeparator)
    /\ PureIdle("scan")

NextScan == Scan_Iteration

\* the loop is run by one thread that is never held back
SpecScan == InitScan /\ [][NextScan]_vars /\ WF_vars(NextScan)

InitSections ==
    /\ call_args \in SectionCalls
    /\ call_ret = None
    /\ PureIdle("format")

SpecSections == InitSections /\ [][NextFormat]_vars

SpecCompare == InitCompare /\ [][NextCompare]_vars

\* every caller is given an url; the cache directory starts empty
InitCache ==
    /\ callers \in [Callers -> {Caller(url, "start", "none") : url \in ConcurrentUrls}]
    /\ cache = NoCache
    /\ CompareIdle
    /\ CallIdle
    /\ RunQuiet("none", [url |-> "none", body |-> <<EmptyLine>>], "idle", FALSE)
    /\ ReviewsIdle

\* run_reviews is called with any resume point from 0 to one beyond the
\* last review
InitReviews ==
    /\ \E resume_from \in 0..(NumReviews + 1), skip_github \in BOOLEAN :
          ReviewsIdleOn([resume_from |-> resume_from, skip_github |-> skip_github], "start")
    /\ CacheIdle
    /\ CompareIdle
    /\ CallIdle
    /\ RunQuiet("none", [url |-> "none", body |-> <<EmptyLine>>], "idle", FALSE)

NextReviews ==
    \/ RR_Resume \/ RR_Submit \/ Worker_Review \/ Worker_Acquire \/ Worker_Append
    \/ RR_Collect \/ RR_Summary \/ RR_GitHub

SpecReviews == InitReviews /\ [][NextReviews]_vars

NextCache ==
    \/ Cache_RemoveExisting \/ Cache_EnsureAbsent \/ Cache_GitStart
    \/ Cache_GitEnd \/ Cache_Cleanup \/ Cache_RunEnds

SpecCache == InitCache /\ [][NextCache]_vars

Init ==
    /\ CompareIdle
    /\ CallIdle
    /\ \/ \E entry \in {"detailed", "simple", "limits"}, doc \in Documents :
             RunIdle(entry, doc, "start")
       \/ \E url \in CacheUrls, existing \in BOOLEAN :
             RunIdleOn("cache", url, "start", existing)

Next ==
    \/ D_ExtractUrl \/ D_ParseUrl \/ Mkdtemp
    \/ Clone_RemoveExisting \/ Clone_SSH \/ Clone_Cleanup \/ Clone_HTTPS
    \/ D_AfterClone \/ D_FindOverall
    \/ D_Task2_Hunyuan \/ D_Task3_Format \/ D_Task4_Solution \/ D_Task5_Problem
    \/ D_Task6_Horizontal \/ D_Task7_Limits \/ D_Task8_Utilities
    \/ D_Except \/ Finally \/ RunReviews_Store \/ Main_Exit \/ Main_Fatal
    \/ S_ExtractUrl \/ S_AfterClone \/ S_Body
    \/ L_Pre \/ L_AfterClone \/ L_Body \/ R_Except
    \/ G_RemoveExisting \/ G_AfterClone

Spec == Init /\ [][Next]_vars

----------------------------------------------------------------------------
(* Properties of the comparator, checked under SpecCompare *)

Range(f) == {f[x] : x \in DOMAIN f}

norm1 == _normalize_content(content1)
norm2 == _normalize_content(content2)

\* the changed lines of the line-level diff of a and b: the lines of a and
\* the lines of b that lie in no matching block
ChangedLines(a, b) ==
    LET blocks == Range(MatchingBlocks(a, b, 0, Len(a), 0, Len(b)))
    IN  {a[i] : i \in {n \in 1..Len(a) :
                         ~\E m \in blocks : m[1] < n /\ n <= m[1] + m[3]}}
        \cup
        {b[j] : j \in {n \in 1..Len(b) :
                         ~\E m \in blocks : m[2] < n /\ n <= m[2] + m[3]}}

ContentLines(text) ==
    LET keep == SelectSeq(text, LAMBDA l : Strip(l) # <<>>)
    IN  [n \in 1..Len(keep) |-> RStrip(keep[n])]

\* C2: when the comparator reports inconsistency, every disallowed changed
\* line appears in the explanation with its '+' or '-' marker, or the
\* explanation states how many further violations are not shown.
C2_ExplanationAccountsForEveryViolation ==
    (cmp_pc = "returned" /\ ~cmp_ok) =>
        \/ \A n \in 1..Len(violations) : violations[n] \in Range(cmp_msg.detailed)
        \/ cmp_msg.stated_remainder = <<Len(violations) - Len(cmp_msg.detailed)>>

\* C3: with the rule list ['newlines', 'spaces', '---'] a changed line whose
\* stripped text is neither empty nor exactly '---' is never tolerated: the
\* comparison that has such a changed line is reported inconsistent.
C3_NamedRulesTolerateOnlyTheirLines ==
    (/\ cmp_pc = "returned"
     /\ allowed_diffs = <<NEWLINES, SPACES, DASHES>>
     /\ \E l \in ChangedLines(norm1, norm2) : Strip(l) # <<>> /\ Strip(l) # DASHES)
    => ~cmp_ok

\* C4: comparing a text with itself is consistent under every rule list.
C4_Reflexive ==
    (cmp_pc = "returned" /\ content1 = content2) => cmp_ok

\* C4 witness: a text with trailing whitespace compared with itself under
\* the empty rule list.
C4_Witness ==
    /\ cmp_pc = "returned"
    /\ content1 = content2
    /\ content1 # norm1
    /\ allowed_diffs = <<>>
    /\ cmp_ok

\* C5: texts that differ only in trailing whitespace and in blank lines are
\* consistent whenever the rule list holds 'newlines' and 'spaces'.
C5_BlankLineAndTrailingSpaceInsensitive ==
    (/\ cmp_pc = "returned"
     /\ NEWLINES \in Range(allowed_diffs)
     /\ SPACES \in Range(allowed_diffs)
     /\ ContentLines(content1) = ContentLines(content2))
    => cmp_ok

----------------------------------------------------------------------------
(* Properties of a validation run, checked under Spec *)

RepoTasks == <<HUNYUAN, FORMAT, SOLUTION, PROBLEM, HORIZONTAL, LIMITS, UTILITIES>>

Names(tasks) == [n \in 1..Len(tasks) |-> tasks[n].name]

Returned == pc \in {"returned", "stored"}

\* C6: once the clone has succeeded, whatever the pass / fail outcome of
\* each task, the returned list holds one outcome for each repository task,
\* in the fixed order of RepoTasks.
C6_EveryTaskReportedInOrder ==
    (fn = "detailed" /\ Returned /\ clone_success = "true" /\ raised = "none") =>
        Names(SelectSeq(results, LAMBDA t : t.name # SETUP)) = RepoTasks

\* C6 witness: a returned run whose first repository task failed and whose
\* last repository task has an outcome.
C6_Witness ==
    /\ fn = "detailed" /\ Returned /\ clone_success = "true" /\ raised = "none"
    /\ \E n \in 1..Len(results) : results[n].name = HUNYUAN /\ results[n].result = FAIL
    /\ results[Len(results)].name = UTILITIES

\* C7: an exception raised while evaluating one task does not keep the later
\* tasks from running: each later task has an outcome in the returned list.
C7_ExceptionDoesNotStopLaterTasks ==
    (fn = "detailed" /\ Returned /\ raised = "listdir") =>
        \A name \in {FORMAT, SOLUTION, PROBLEM, HORIZONTAL, LIMITS, UTILITIES} :
            name \in Range(Names(results))

\* C8: when the checkout holds no overall report file, the outcome recorded
\* for the setup task is Fail, in the returned list and in the mapping that
\* run_reviews builds from it.
C8_MissingOverallFailsSetup ==
    (fn = "detailed" /\ pc = "stored" /\ clone_success = "true" /\ repo.overall_count = 0) =>
        /\ \A n \in 1..Len(results) : results[n].name = SETUP => results[n].result = FAIL
        /\ results_map[SETUP] = FAIL

\* C9: when the clone fails, the call returns, without raising, a list that
\* ends with a failing setup task and holds no outcome of a repository task,
\* and no repository check was evaluated.
C9_CloneFailureStopsRepositoryTasks ==
    (fn = "detailed" /\ Returned /\ clone_success = "false") =>
        /\ raised = "none"
        /\ results # <<>>
        /\ results[Len(results)].name = SETUP
        /\ results[Len(results)].result = FAIL
        /\ \A n \in 1..Len(results) : results[n].name \notin Range(RepoTasks)
        /\ ran = <<>>

\* C9 witness: a returned run whose SSH and HTTPS attempts both failed.
C9_Witness ==
    /\ fn = "detailed" /\ Returned /\ clone_success = "false"
    /\ Len(attempts) = 2
    /\ results = <<Task(SETUP, FAIL, "clone_failed")>>

\* C10: when a run that created a checkout directory returns, on whatever
\* exit path, that directory no longer exists.
C10_DirectoryRemovedOnReturn ==
    (Returned /\ temp_dir = "dir") => ~dir_exists

----------------------------------------------------------------------------
(* Properties of _clone_repository, checked under Spec *)

CloneReturned == clone_success # "pending"

----------------------------------------------------------------------------
(* Properties of the section extraction, checked under SpecExtract *)

IsMarker(line, marker) == Strip(line) = marker

\* the lines of doc that lie strictly between line s and line e
LinesBetween(doc, s, e) == JoinLines(SubSeq(doc, s + 1, e - 1))

\* the pairs of a start marker line and the first end marker line after it
PromptRegions(doc) ==
    {<<s, e>> \in (1..Len(doc)) \X (1..Len(doc)) :
        /\ IsMarker(doc[s], PROMPT)
        /\ s < e
        /\ IsMarker(doc[e], ASSISTANT)
        /\ \A m \in (s + 1)..(e - 1) : ~IsMarker(doc[m], ASSISTANT)}

\* C12: for a document that holds a start marker line and an end marker
\* line after it, _extract_prompt_section returns the lines strictly between
\* a start marker line and the end marker line that follows it, wherever
\* else marker lines occur in the document.
C12_PromptSectionIsTheLinesBetweenTheMarkers ==
    (cmp_pc = "extract" /\ call_ret.prompt # Unset /\ PromptRegions(call_args) # {}) =>
        \E r \in PromptRegions(call_args) :
            call_ret.prompt = LinesBetween(call_args, r[1], r[2])

\* index of the first line equal, after trimming, to the CHAIN_01 marker;
\* 0 when there is none
FirstChain01(doc) ==
    IF \E i \in 1..Len(doc) : IsMarker(doc[i], CHAIN01)
    THEN CHOOSE i \in 1..Len(doc) :
            /\ IsMarker(doc[i], CHAIN01)
            /\ \A j \in 1..(i - 1) : ~IsMarker(doc[j], CHAIN01)
    ELSE 0

\* C13: with the first marker line at index i, the until-extraction returns
\* the lines up to and including line i and the from-extraction the lines
\* from line i on, so the first result without its last line followed by the
\* second result is the document; without a marker line the first result is
\* the whole document and the second the empty text.
C13_UntilAndFromSplitTheDocument ==
    (/\ cmp_pc = "extract"
     /\ call_ret.until_chain01 # Unset
     /\ call_ret.from_chain01 # Unset) =>
        LET i == FirstChain01(call_args)
            until == call_ret.until_chain01
            from == call_ret.from_chain01
        IN  IF i = 0
            THEN until = call_args /\ from = <<EmptyLine>>
            ELSE /\ until = SubSeq(call_args, 1, i)
                 /\ from = SubSeq(call_args, i, Len(call_args))
                 /\ SubSeq(until, 1, Len(until) - 1) \o from = call_args

\* C13 witness: the first marker line is surrounded by whitespace, has a
\* line before it and a second marker line after it.
C13_Witness ==
    /\ cmp_pc = "extract"
    /\ call_ret.until_chain01 # Unset
    /\ call_ret.from_chain01 # Unset
    /\ FirstChain01(call_args) = 2
    /\ call_args[2] # CHAIN01
    /\ Len(call_args) = 4
    /\ IsMarker(call_args[4], CHAIN01)

----------------------------------------------------------------------------
(* Properties of _extract_github_url, checked under SpecUrl *)

AllSpace(d, from, to) == \A k \in from..to : d[k] \in RegexSpace

\* the substrings of d that the group (https://github\.com/[^\s\n]+) can
\* capture, as pairs of first and last index
UrlSpans(d, ic) ==
    UNION {{<<u, e>> : e \in {e \in (u + Len(HTTPS_GITHUB))..Len(d) :
                                /\ \A k \in (u + Len(HTTPS_GITHUB))..e : d[k] \notin RegexSpace
                                /\ (e = Len(d) \/ d[e + 1] \in RegexSpace)}} :
           u \in {u \in 1..Len(d) : LitAt(d, u, HTTPS_GITHUB, ic)}}

\* the captures of the labelled patterns, by position in the fixed order:
\* the label, what may stand between label and URL, the URL
LabelPlaces(d, label, ic) == {p \in 1..Len(d) : LitAt(d, p, label, ic)}

Captures(d, k) ==
    IF k = 1 THEN
        {SubSeq(d, r[1], r[2]) : r \in {r \in UrlSpans(d, FALSE) :
            \E p \in LabelPlaces(d, GITHUB_URL_EXACT, FALSE) :
                /\ p + Len(GITHUB_URL_EXACT) < r[1]
                /\ AllSpace(d, p + Len(GITHUB_URL_EXACT), r[1] - 1)}}
    ELSE IF k = 2 THEN
        {SubSeq(d, r[1], r[2]) : r \in {r \in UrlSpans(d, TRUE) :
            \E p \in LabelPlaces(d, GITHUB_URL_STARS, TRUE) :
                \E c \in (p + Len(GITHUB_URL_STARS))..(r[1] - 2) :
                    /\ d[c] = ":"
                    /\ AllSpace(d, p + Len(GITHUB_URL_STARS), c - 1)
                    /\ AllSpace(d, c + 1, r[1] - 1)}}
    ELSE IF k = 3 THEN
        {SubSeq(d, r[1], r[2]) : r \in {r \in UrlSpans(d, TRUE) :
            \E p \in LabelPlaces(d, GITHUB_URL_EXACT, TRUE) :
                /\ p + Len(GITHUB_URL_EXACT) <= r[1]
                /\ \A m \in (p + Len(GITHUB_URL_EXACT))..(r[1] - 1) : d[m] # "\n"}}
    ELSE
        {SubSeq(d, r[1], r[2]) : r \in {r \in UrlSpans(d, TRUE) :
            \E p \in LabelPlaces(d, GITHUB_URL_PLAIN, TRUE) :
                \E c \in (p + Len(GITHUB_URL_PLAIN))..(r[1] - 1) :
                    /\ d[c] = ":"
                    /\ \A m \in (p + Len(GITHUB_URL_PLAIN))..(c - 1) : d[m] # ":"
                    /\ AllSpace(d, c + 1, r[1] - 1)}}

\* the substrings of d that the last-resort pattern matches: a scheme, no
\* whitespace, the host name somewhere after the scheme
RobustCaptures(d) ==
    UNION {{SubSeq(d, p, e) : e \in {e \in p..Len(d) :
                /\ \A m \in p..e : d[m] \notin RegexSpace
                /\ \E b \in {p + Len(HTTP), p + Len(HTTP) + 1} :
                      /\ (b = p + Len(HTTP) + 1 => Fold(d[b - 1], TRUE) = "s")
                      /\ LitAt(d, b, COLON_SLASHES, TRUE)
                      /\ \E q \in (b + Len(COLON_SLASHES))..(e - Len(GITHUB_COM) + 1) :
                            LitAt(d, q, GITHUB_COM, TRUE)}} :
           p \in {p \in 1..Len(d) : LitAt(d, p, HTTP, TRUE)}}

LabelledPatterns == 1..4

\* C14: the patterns are tried in their fixed order and the result is a
\* capture of the first pattern that matches, whatever the later patterns
\* would capture; when only the last-resort pattern matches the result is
\* one of its matches and no match is longer; the result is None exactly
\* when no pattern matches.
C14_FirstMatchingPatternWins ==
    cmp_pc = "url_returned" =>
        LET caps == [k \in LabelledPatterns |-> Captures(call_args, k)]
            robust == RobustCaptures(call_args)
        IN  /\ \A k \in LabelledPatterns :
                  (caps[k] # {} /\ \A j \in 1..(k - 1) : caps[j] = {})
                  => call_ret \in caps[k]
            /\ (\A k \in LabelledPatterns : caps[k] = {}) =>
                  /\ robust # {} =>
                        /\ call_ret \in robust
                        /\ \A u \in robust : Len(u) <= Len(call_ret)
                  /\ robust = {} => call_ret = None
            /\ call_ret = None =>
                  /\ \A k \in LabelledPatterns : caps[k] = {}
                  /\ robust = {}

\* C14 witness: the exact pattern captures a URL and the plain-label
\* pattern would capture a longer URL that stands earlier in the document.
C14_Witness ==
    /\ cmp_pc = "url_returned"
    /\ call_ret \in Captures(call_args, 1)
    /\ \E u \in Captures(call_args, 4) :
          /\ Len(u) > Len(call_ret)
          /\ u = Search(alternative_pattern_3, call_args)

----------------------------------------------------------------------------
(* C15 *)

FormatReturned == cmp_pc = "format_returned"

\* C15: _validate_overall_md_format passes only if the section of the
\* hunyuan model shows the failing status marker: a report the function
\* accepts has the marker in that section, so a report whose hunyuan
\* section shows no failing marker, one with neither marker included, is
\* rejected.
C15_PassesOnlyIfHunyuanShowsFail ==
    (FormatReturned /\ call_ret.ok) => call_args.report.hunyuan \in {"fail", "both"}

----------------------------------------------------------------------------
(* C16 *)

\* the run-file names of the solution_bf model: the name itself, or the name
\* with an extension
IsBfRunFile(name) ==
    /\ Len(name) >= Len(SOLUTION_BF)
    /\ SubSeq(name, 1, Len(SOLUTION_BF)) = SOLUTION_BF
    /\ (Len(name) = Len(SOLUTION_BF) \/ name[Len(SOLUTION_BF) + 1] = ".")

\* a row of the solution_bf model with a wrong answer or a compile error
BadBfRow(row) == IsBfRunFile(row.name) /\ (row.wa # ZERO \/ row.ce # ZERO)

HasBadBfRow(report) == \E n \in 1..Len(report.bf) : BadBfRow(report.bf[n])

\* C16: _validate_overall_md_format rejects the report whenever a row of
\* the solution_bf table has a non-zero wrong-answer count or a non-zero
\* compile-error count in its error cell, and a report without such a row is
\* never rejected on account of that table, whatever its time-limit and
\* runtime-error counts: a report whose sections and status markers are in
\* order is accepted exactly if it has no such row.
C16_BfRowsRejectedForWaAndCeOnly ==
    FormatReturned =>
        LET report == call_args.report
        IN  /\ HasBadBfRow(report) => ~call_ret.ok
            /\ ~HasBadBfRow(report) => call_ret.msg \notin {"wa", "ce"}
            /\ (report.legend /\ report.hunyuan \in {"fail", "both"} /\ report.standard = "pass")
                   => (call_ret.ok <=> ~HasBadBfRow(report))

\* a report in order but for a solution_bf row with the cell 0/0/0/1 is
\* rejected for the compile error
C16_Witness ==
    /\ FormatReturned
    /\ call_args.report.legend
    /\ call_args.report.hunyuan = "fail"
    /\ call_args.report.standard = "pass"
    /\ call_args.report.bf = <<BfRow(BF_CPP, ZERO, ZERO, ZERO, ONE)>>
    /\ ~call_ret.ok
    /\ call_ret.msg = "ce"

----------------------------------------------------------------------------
(* C17 *)

LimitsReturned == fn = "limits" /\ pc = "returned"

Sources == {"report", "problem_statement", "requirements", "metadata"}

\* a time and a memory limit were obtained from the source
Obtained(source) ==
    /\ all_limits[source].time.kind \in {"int", "float"}
    /\ all_limits[source].space.kind \in {"int", "float"}

\* the source was read, whatever it held
WasRead(source) == all_limits[source].time.kind # "not_extracted"

\* the four times are the same number and the four memory limits are
SameLimitsEverywhere ==
    \A a \in Sources, b \in Sources :
        /\ all_limits[a].time.tenths = all_limits[b].time.tenths
        /\ all_limits[a].space.tenths = all_limits[b].space.tenths

\* C17: LimitsConsistencyReviewer.review returns PASS if and only if a time
\* and a memory limit were obtained from all four sources and the four
\* times are equal and the four memory limits are equal, an integer and the
\* float of the same value counting as equal; when the four sources were
\* read and a value diverges the result is FAIL and its reasoning tells
\* which limits diverge and lists the time and memory value of every one of
\* the four sources.
C17_PassIffFourSourcesAgree ==
    LimitsReturned =>
        /\ (response = PASS) <=> ((\A source \in Sources : Obtained(source))
                                  /\ SameLimitsEverywhere)
        /\ ((\A source \in Sources : WasRead(source)) /\ ~SameLimitsEverywhere) =>
               /\ response = FAIL
               /\ reasoning.kind = "inconsistent"
               /\ reasoning.issues # <<>>
               /\ \A source \in Sources : reasoning.table[source] = all_limits[source]

\* the review passes with the time 1.0 in requirements.json and 1 elsewhere
C17_Witness ==
    /\ LimitsReturned
    /\ response = PASS
    /\ all_limits.requirements.time = PyFloat(10)
    /\ all_limits.report.time = PyInt(1)

----------------------------------------------------------------------------
(* C18 *)

\* the review ended on the failure of one source to yield its limits
OneSourceFailed == reasoning.kind \in {"report_limits", "problem_limits", "json_error"}

\* C18: a failure to extract or parse the limits of one source does not
\* block the comparison of the remaining sources: when the review ends on
\* the failure of one source, the other three sources have been read and
\* the reasoning holds their comparison.
C18_FailedSourceDoesNotBlockTheOthers ==
    (LimitsReturned /\ OneSourceFailed) =>
        /\ Cardinality({source \in Sources : WasRead(source)}) >= 3
        /\ reasoning.table # NoLimits

----------------------------------------------------------------------------
(* C19 *)

\* the outcomes produced during the run: those of the validator's list and
\* those of the AI reviews, which the results keep under their own names
ProducedOutcomes ==
    {results[n].result : n \in 1..Len(results)}
    \cup {results_map[name] : name \in DOMAIN results_map \ {results[n].name : n \in 1..Len(results)}}

\* C19: the process exits with code zero if and only if no fatal error
\* occurred and every task outcome produced during the run, by the
\* repository validator or by an AI review, is a pass; this holds too when
\* two tasks of the validator's list carry the same name and are merged in
\* the name-keyed results.
C19_ExitZeroIffEveryTaskPassed ==
    (pc \in {"exited", "fatal"}) =>
        ((exit_code = 0) <=> (pc = "exited" /\ FAIL \notin ProducedOutcomes))

----------------------------------------------------------------------------
(* C20 *)

CacheReturned == fn = "cache" /\ pc = "returned"

----------------------------------------------------------------------------
(* Properties of concurrent callers of the cache, checked under SpecCache *)

Using(c) == callers[c].pc = "using" /\ callers[c].ret = "repo_dir"

\* C21: while a run uses the directory get_or_clone_repository returned to
\* it, the directory is a complete checkout of that run's url, whatever the
\* other run does meanwhile (same url, or another url with the same
\* repository name).
C21_ReturnedCheckoutStaysIntact ==
    \A c \in Callers :
        Using(c) =>
            /\ cache[repo_dir(c)].exists
            /\ cache[repo_dir(c)].complete
            /\ cache[repo_dir(c)].of = callers[c].url

----------------------------------------------------------------------------
(* Properties of the sections _validate_overall_md_format examines,        *)
(* checked under SpecFormat                                                *)

\* the line of content that ends at the line end at offset i
LineEndingAt(content, i) == Slice(content, RFindChar(content, "\n", i) + 1, i)

StartsOrEndsWithPipe(line) ==
    line # <<>> /\ (line[1] = "|" \/ line[Len(line)] = "|")

\* the offsets after start where a section ends: a model header, the
\* overall-comparison header, or the line end before a bare rule line whose
\* preceding line is not a table line
SectionEnds(content, start) ==
    {i \in (start + 1)..Len(content) :
        \/ OccursAt(content, MODEL_HEADER, i)
        \/ OccursAt(content, OVERALL_HEADER, i)
        \/ /\ OccursAt(content, SEPARATOR, i)
           /\ ~StartsOrEndsWithPipe(LineEndingAt(content, i))}

\* the section from start to the least of these offsets, or to the end of
\* the file
SectionFrom(content, start) ==
    LET ends == SectionEnds(content, start)
    IN  IF ends = {} THEN Slice(content, start, Len(content))
        ELSE Slice(content, start, CHOOSE i \in ends : \A o \in ends : i <= o)

\* which sections the call went on to examine before it returned
HunyuanExamined == call_ret.msg # "missing_sections"

StandardExamined ==
    call_ret.msg \notin {"missing_sections", "hunyuan_should_fail", "missing_standard"}

BfExamined ==
    /\ call_ret.msg \in {"wa", "ce", "passed"}
    /\ HeaderMatchStart(call_args.content, BF_HEADER) # -1

StandardSectionAsSpecified ==
    (FormatReturned /\ StandardExamined) =>
        standard_section(call_args.content)
            = SectionFrom(call_args.content,
                          HeaderMatchStart(call_args.content, STANDARD_HEADER))

\* C22: each model section _validate_overall_md_format examines (the
\* hunyuan section, the standard section and the solution_bf section when
\* there is one) is the text from its header up to the nearest of the next
\* model header, the next overall-comparison header and the next bare rule
\* line whose preceding line neither starts nor ends with a pipe, or up to
\* the end of the file when none of them follows.
C22_SectionsEndAtTheNearestMarker ==
    FormatReturned =>
        LET content == call_args.content
        IN  /\ HunyuanExamined =>
                  hunyuan_section(content)
                      = SectionFrom(content, Find(content, SECTION_HUNYUAN, 0))
            /\ StandardSectionAsSpecified
            /\ BfExamined =>
                  bf_section(content)
                      = SectionFrom(content, HeaderMatchStart(content, BF_HEADER))

----------------------------------------------------------------------------
(* Properties of the header check of _validate_overall_md_format, checked  *)
(* under SpecSections                                                      *)

\* the headers the returned message names as missing
NamedMissing ==
    {call_ret.missing[n] : n \in 1..Len(call_ret.missing)}
    \cup (IF call_ret.msg = "missing_standard" THEN {STANDARD_HEADER} ELSE {})

\* C23: _validate_overall_md_format fails whenever a required header (title
\* prefix, error-code legend, detailed-model-performance marker, hunyuan
\* model header, standard model header, overall-model-comparison marker) is
\* absent from the report, and the message it returns names every absent
\* header, also when the standard model header is absent together with
\* others.
C23_EveryMissingHeaderIsNamed ==
    (FormatReturned /\ call_args.report.absent # {}) =>
        /\ ~call_ret.ok
        /\ call_args.report.absent \subseteq NamedMissing

\* the part of C23 that holds: a report that lacks a header is rejected
AbsentHeaderIsRejected ==
    (FormatReturned /\ call_args.report.absent # {}) => ~call_ret.ok

----------------------------------------------------------------------------
(* Properties of the failure counts of main and generate_report, checked   *)
(* under Spec                                                              *)

Exited == fn = "detailed" /\ pc = "exited"

\* the names of the failing outcomes in the list the validator returned
ProducedNames == {results[n].name : n \in 1..Len(results)}

FailedTasks == {results[n].name : n \in {m \in 1..Len(results) : results[m].result = FAIL}}

\* the failing names of the mapping by where they came from
FailedFromValidator == {name \in failed_reviews : name \in ProducedNames}

FailedFromAi == {name \in failed_reviews : name \notin ProducedNames}

\* C24: every failing outcome the validator produced is counted as a GitHub
\* failure and every failing AI review as an AI failure, by the exit message
\* of main and by the summary of generate_report alike, whatever the task
\* name, the name 'GitHub Validation Error' included.
C24_FailuresCountedBySource ==
    Exited =>
        /\ FailedTasks \subseteq github_failures
        /\ FailedFromAi = ai_failures
        /\ github_failed >= Cardinality(FailedTasks)
        /\ ai_failed = Cardinality(FailedFromAi)

\* the classification alone, on the names that reached the mapping
StoredFailuresCountedBySource ==
    Exited =>
        /\ FailedFromValidator = github_failures
        /\ FailedFromAi = ai_failures

\* the same with the error task set aside
OtherTaskNamesCountedBySource ==
    (Exited /\ VALIDATION_ERROR \notin ProducedNames) =>
        /\ FailedFromValidator = github_failures
        /\ FailedFromAi = ai_failures
        /\ github_failed = Cardinality(FailedFromValidator)
        /\ ai_failed = Cardinality(FailedFromAi)

----------------------------------------------------------------------------
(* Properties of the choice of the overall.md file, checked under          *)
(* SpecSelect                                                              *)

SelectReturned == cmp_pc = "select_returned"

\* the paths of the walk whose file name is overall.md in any case
OverallPaths ==
    {PathJoin(e.root, e.file) :
        e \in {call_args[n] : n \in {m \in 1..Len(call_args) :
                                         Lower(call_args[m].file) = OVERALL_MD}}}

\* no path of the set is greater
Largest(path, paths) == path \in paths /\ \A other \in paths : ~StrLess(path, other)

\* C25: when the walk meets several files named overall.md in any case the
\* file selected is the one with the greatest path, whatever the order in
\* which the walk met them; when it meets exactly one, that one is selected.
C25_LargestPathSelected ==
    (SelectReturned /\ OverallPaths # {}) =>
        Largest(call_ret.overall_md_path, OverallPaths)

\* three files were found, the greatest of them neither first nor last
C25_Witness ==
    /\ SelectReturned
    /\ Len(call_ret.overall_files) = 3
    /\ Largest(call_ret.overall_files[2], OverallPaths)
    /\ call_ret.overall_md_path = call_ret.overall_files[2]

----------------------------------------------------------------------------
(* Properties of run_reviews, checked under SpecReviews *)

ReviewsReturned == rr_pc = "returned"

\* the position the reviews are run from
EffectiveResume ==
    IF rr_args.resume_from <= NumReviews THEN rr_args.resume_from ELSE 1

Stored(i) == ai_reviews[i] \in DOMAIN results_dict

\* C26: with N AI reviews and a resume point k from 1 to N run_reviews runs
\* the reviews at the positions k..N, each exactly once, and stores for each
\* position below k a passed placeholder with the reasoning 'SKIPPED -
\* Resumed from later point' without running the review, so that the
\* results hold an entry for each of the N reviews; a resume point beyond N
\* runs the reviews from position 1; the GitHub validation runs once
\* whatever k is, unless it is skipped.
C26_ResumeRunsFromKAndSkipsBefore ==
    /\ \A i \in Positions : futures[i].runs <= 1
    /\ (ReviewsReturned /\ rr_args.resume_from >= 1) =>
          /\ \A i \in Positions :
                /\ Stored(i)
                /\ IF i >= EffectiveResume
                   THEN /\ futures[i].runs = 1
                        /\ results_dict[ai_reviews[i]] = futures[i].ret
                   ELSE /\ futures[i].runs = 0
                        /\ results_dict[ai_reviews[i]] = ReviewResponse(PASS, SKIPPED)
          /\ github_runs = IF rr_args.skip_github THEN 0 ELSE 1

\* resumed from the last position: the reviews before it are placeholders
\* and the last one ran and failed
C26_Witness ==
    /\ ReviewsReturned
    /\ rr_args.resume_from = NumReviews
    /\ results_dict[ai_reviews[1]] = ReviewResponse(PASS, SKIPPED)
    /\ futures[1].runs = 0
    /\ futures[NumReviews].runs = 1
    /\ results_dict[ai_reviews[NumReviews]].result = FAIL
    /\ github_runs = 1

\* the responses of the workers are in the mapping, each under its own name
EveryScheduledReviewStored ==
    ReviewsReturned =>
        \A i \in Positions :
            i >= start_index =>
                /\ Stored(i)
                /\ results_dict[ai_reviews[i]] = futures[i].ret
                /\ futures[i].ret.result \in {PASS, FAIL}

\* what is appended to the log while a worker runs is appended under the lock
AppendsUnderLock ==
    \A n \in 1..Len(detailed_output) : detailed_output[n].during => detailed_output[n].held

\* C27: in every interleaving of the worker threads, when run_reviews
\* returns the mapping holds one outcome for each scheduled review, namely
\* the response of that review's own worker (the FAIL response of the except
\* clause when the review raised, which leaves the outcomes of the other
\* reviews as they are); only steps of the calling thread write the
\* mapping; and every append to detailed_output made while a worker runs is
\* made by a thread that holds output_lock.
C27_WorkersShareNothingButTheLockedLog ==
    /\ [](EveryScheduledReviewStored /\ AppendsUnderLock)
    /\ [][results_dict' # results_dict => futures' = futures]_vars

\* two workers appended to the log one after the other while a third was
\* still running, one review raised and another passed
C27_Witness ==
    /\ ReviewsReturned
    /\ \E n \in 1..(Len(detailed_output) - 1) :
          /\ detailed_output[n].by \in Positions
          /\ detailed_output[n + 1].by \in Positions
          /\ detailed_output[n].during
    /\ \E i \in Positions, j \in Positions :
          /\ results_dict[ai_reviews[i]] = ReviewResponse(FAIL, "Review failed with error")
          /\ results_dict[ai_reviews[j]] = ReviewResponse(PASS, "reviewed")

----------------------------------------------------------------------------
(* Properties of the task names, checked under Spec *)

ListReturned == fn = "detailed" /\ pc \in {"returned", "stored", "exited"}

\* C28: the task names in the list validate_github_requirements_detailed
\* returns are pairwise distinct on every path, so the name-keyed mapping
\* run_reviews builds from the list holds every outcome of the list.
C28_TaskNamesAreDistinct ==
    /\ ListReturned =>
          \A i \in 1..Len(results), j \in 1..Len(results) :
              results[i].name = results[j].name => i = j
    /\ (fn = "detailed" /\ pc \in {"stored", "exited"}) =>
          \A i \in 1..Len(results) : results_map[results[i].name] = results[i].result

\* the same on the runs that found an overall.md
NamesDistinctWithOverallMd ==
    (ListReturned /\ overall_md_path # "None") =>
        \A i \in 1..Len(results), j \in 1..Len(results) :
            results[i].name = results[j].name => i = j

----------------------------------------------------------------------------
(* The memory-limit task *)

UsageReturned == cmp_pc = "limits_returned"

\* the limit found in the prompt region and the Max Mem values read from the
\* tables of a readable overall.md
ExtractedLimit == memory_limit_match(_extract_prompt_section(call_args.document))

ParsedMaxMems ==
    IF call_args.overall_md.readable THEN MaxMems(call_args.overall_md.lines) ELSE <<>>

\* limit >= 1.5 * value as numbers: no limit is at least nan or infinity
AtLeastRequired(limit, value) ==
    /\ value.kind = "float"
    /\ limit.tenths * 10 >= value.tenths * RequiredFactor

LimitCoversUsage ==
    /\ ExtractedLimit # None
    /\ ParsedMaxMems # <<>>
    /\ \A n \in 1..Len(ParsedMaxMems) :
           AtLeastRequired(FloatOfText(ExtractedLimit), ParsedMaxMems[n])

\* C29: _validate_limits_vs_usage passes if and only if a memory limit is
\* extracted from the prompt region, at least one Max Mem value is parsed
\* from the tables and the limit is at least 1.5 times the maximum of the
\* parsed values (so at least 1.5 times every one of them, equality
\* included); without a limit or without a value it fails.
C29_PassesIffLimitCoversMaxUsage ==
    UsageReturned => (call_ret.valid <=> LimitCoversUsage)

\* the same for the tables none of whose Max Mem cells reads as nan
PassesIffLimitCoversNumbers ==
    (UsageReturned /\ \A n \in 1..Len(ParsedMaxMems) : ParsedMaxMems[n] # NaN) =>
        (call_ret.valid <=> LimitCoversUsage)

\* a limit equal to 1.5 times the largest usage passes
EqualLimitPasses ==
    (/\ UsageReturned
     /\ ExtractedLimit # None
     /\ ParsedMaxMems # <<>>
     /\ \A n \in 1..Len(ParsedMaxMems) : ParsedMaxMems[n].kind = "float"
     /\ \E n \in 1..Len(ParsedMaxMems) :
            FloatOfText(ExtractedLimit).tenths * 10 = ParsedMaxMems[n].tenths * RequiredFactor
     /\ \A n \in 1..Len(ParsedMaxMems) :
            AtLeastRequired(FloatOfText(ExtractedLimit), ParsedMaxMems[n]))
        => call_ret.valid

----------------------------------------------------------------------------
(* The scan for a standalone separator *)

ScanDone == cmp_pc = "scan_done"

\* C30: the scan for a standalone '---' separator ends for every content:
\* an iteration that does not end the loop moves search_start strictly
\* forward, past the separator it found, and search_start never passes the
\* end of the content, so the loop ends after finitely many iterations.
C30_SeparatorScanTerminates ==
    /\ <>ScanDone
    /\ [](call_ret.search_start <= Len(call_args))
    /\ [][(cmp_pc = "scan" /\ cmp_pc' = "scan") =>
              /\ call_ret'.search_start > call_ret.search_start
              /\ call_ret'.search_start
                     = Find(call_args, SEPARATOR, call_ret.search_start) + 1]_vars

\* the loop has ended after it rejected two table borders at least
C30_Witness ==
    /\ ScanDone
    /\ Find(call_args, SEPARATOR, ScanStart(call_args)) # -1
    /\ call_ret.search_start > Find(call_args, SEPARATOR, ScanStart(call_args)) + 1

\* the loop ends with the offset the validator's section uses
ScanAgreesWithSection ==
    ScanDone =>
        call_ret.next_separator = NextStandaloneSeparator(call_args, ScanStart(call_args))


========================================================================
